---- MODULE Spec2Model ----
(***************************************************************************)
(* The project wizard of internal/ui: the stage state machine driven by    *)
(* model.Update, the option lists it builds, and the name input.           *)
(*                                                                         *)
(* A string is a sequence of code points, so that strings.ToLower,         *)
(* strings.TrimSpace, strings.TrimPrefix, strings.EqualFold and the        *)
(* comparison of sortStrings are computed the way the Go code computes     *)
(* them.  The wizard state is the record m, one field per field of the Go  *)
(* struct `model`; every handler is an operator from a model value (and a  *)
(* message) to the model value and the command it returns, as in Go.       *)
(*                                                                         *)
(* Left out of m: the styles, the descriptions of the list items and the   *)
(* frame of the spinner, which only the rendering reads.  nameErr is the   *)
(* field renderNameInput shows under the input; no handler of wizard.go    *)
(* assigns it.  The lists and the name input are the bubbles components:   *)
(* of their Update only the keys the wizard uses are modelled (cursor up   *)
(* and down on a list; runes, backspace and left on the input).            *)
(***************************************************************************)
EXTENDS Integers, Sequences, FiniteSets, TLC

(***************************************************************************)
(* Bounds of the model.                                                    *)
(***************************************************************************)
\* longest name buffer the user types (the input's CharLimit is far larger)
MaxNameLen == 2
\* number of spinner ticks processed
MaxFrame == 1
\* longest slice handed to a helper that is checked on its own
MaxValues == 3
\* number of title ticks processed when the wizard is left alone
MaxRevealFrame == 190
\* length of a text, columns of an offset and of a width handed to applyHorizontalOffset
MaxTextLen == 4
MaxOffset == 3
MaxColumns == 3
\* actions of a plan handed to Apply
MaxActions == 3

(***************************************************************************)
(* Strings.                                                                *)
(***************************************************************************)
EmptyStr == << >>
Go == <<71, 111>>
Py == <<80, 121>>
Vanilla == <<86, 97, 110, 105, 108, 108, 97>>
Cobra == <<67, 111, 98, 114, 97>>
cobra == <<99, 111, 98, 114, 97>>
Api == <<65, 112, 105>>
gin == <<103, 105, 110>>
Gorm == <<71, 111, 114, 109>>
KeySep == <<58, 58>>
CheckedPrefix == <<91, 120, 93, 32>>
UncheckedPrefix == <<91, 32, 93, 32>>

\* strings.ToLower on ASCII letters
ToLower(s) == [i \in 1..Len(s) |-> IF s[i] \in 65..90 THEN s[i] + 32 ELSE s[i]]

IsSpace(c) == c \in {9, 10, 11, 12, 13, 32}

RECURSIVE TrimLeft(_)
TrimLeft(s) ==
    IF Len(s) > 0 /\ IsSpace(s[1]) THEN TrimLeft(Tail(s)) ELSE s

RECURSIVE TrimRight(_)
TrimRight(s) ==
    IF Len(s) > 0 /\ IsSpace(s[Len(s)]) THEN TrimRight(SubSeq(s, 1, Len(s) - 1)) ELSE s

\* strings.TrimSpace
TrimSpace(s) == TrimRight(TrimLeft(s))

\* strings.TrimPrefix
TrimPrefix(s, p) ==
    IF Len(s) >= Len(p) /\ SubSeq(s, 1, Len(p)) = p
    THEN SubSeq(s, Len(p) + 1, Len(s))
    ELSE s

\* strings.EqualFold on ASCII
EqualFold(a, b) == ToLower(a) = ToLower(b)

\* the Go operator < on strings
RECURSIVE StrLess(_, _)
StrLess(a, b) ==
    IF Len(b) = 0 THEN FALSE
    ELSE IF Len(a) = 0 THEN TRUE
    ELSE IF a[1] < b[1] THEN TRUE
    ELSE IF a[1] > b[1] THEN FALSE
    ELSE StrLess(Tail(a), Tail(b))

\* the keys of a Go map in the order one `range` visits them
RECURSIVE MapRange(_)
MapRange(S) ==
    IF S = {} THEN << >>
    ELSE LET x == CHOOSE y \in S : TRUE IN <<x>> \o MapRange(S \ {x})

(***************************************************************************)
(* helpers of the wizard                                                   *)
(***************************************************************************)
RECURSIVE uniqueFrom(_, _, _)
uniqueFrom(values, seen, result) ==
    IF Len(values) = 0 THEN result
    ELSE LET value == Head(values)
             key == ToLower(TrimSpace(value))
         IN IF key = EmptyStr \/ key \in seen
            THEN uniqueFrom(Tail(values), seen, result)
            ELSE uniqueFrom(Tail(values), seen \cup {key}, Append(result, value))

\* uniqueStrings that keeps the last occurrence of a key instead of the first
uniqueStrings_KeepLast(values) ==
    LET Reverse(seq) == [i \in 1..Len(seq) |-> seq[Len(seq) + 1 - i]]
    IN Reverse(uniqueFrom(Reverse(values), {}, << >>))

uniqueStrings(values) == uniqueFrom(values, {}, << >>)

Swap(v, i, j) == [v EXCEPT ![i] = v[j], ![j] = v[i]]

\* the inner loop of sortStrings, positions 1-based
RECURSIVE sortInner(_, _, _)
sortInner(v, i, j) ==
    IF j > Len(v) THEN v
    ELSE IF StrLess(ToLower(v[j]), ToLower(v[i]))
         THEN sortInner(Swap(v, i, j), i, j + 1)
         ELSE sortInner(v, i, j + 1)

RECURSIVE sortOuter(_, _)
sortOuter(v, i) ==
    IF i > Len(v) THEN v ELSE sortOuter(sortInner(v, i, i + 1), i + 1)

sortStrings(values) == sortOuter(values, 1)

contains(values, target) ==
    \E i \in 1..Len(values) : EqualFold(values[i], target)

clamp(value, min, max) ==
    IF value < min THEN min
    ELSE IF value > max THEN max
    ELSE value

(***************************************************************************)
(* The title animation: the columns of the art revealed at a frame.        *)
(***************************************************************************)
\* runeLen of each line of asciiArt()
artLineWidths == <<46, 46, 46, 46, 0, 46, 46, 46, 46>>

RECURSIVE widest(_, _)
widest(widths, w) ==
    IF Len(widths) = 0 THEN w
    ELSE widest(Tail(widths), IF Head(widths) > w THEN Head(widths) ELSE w)

artWidth == widest(artLineWidths, 0)

revealColumns == 3

\* revealTotalTicks that drops the remainder of the division
revealTotalTicks_RoundDown == artWidth \div revealColumns

revealTotalTicks ==
    IF artWidth % revealColumns # 0 THEN (artWidth \div revealColumns) + 1
    ELSE artWidth \div revealColumns

\* revealedCols of renderAnimatedTitle
revealedCols(frame) ==
    IF frame * revealColumns > artWidth THEN artWidth ELSE frame * revealColumns

\* contentWidth of renderFrame; the panel is 88 wide until the first resize
contentWidth(mm) == (IF mm.panelW = 0 THEN 88 ELSE mm.panelW) - 6

(***************************************************************************)
(* Stages, errors, messages.                                               *)
(***************************************************************************)
stageLanguage == 0
stageFramework == 1
stageLibraries == 2
stageName == 3
stageConfirm == 4
stageDone == 5

\* the values of m.err: nil, or the message of the error
ErrNil == "nil"
ErrCancelled == "cancelled"
ErrNoLanguage == "no language selected"
ErrNoFramework == "no framework selected"
ErrNameRequired == "project name is required"

\* commands returned by Update
Quit == "tea.Quit"
Tick == "spinner.Tick"

CancelKeys == {"ctrl+c", "esc"}
BackKeys == {"b", "left", "backspace"}
MoveKeys == {"up", "down"}

KeyMsg(k) == [type |-> "tea.KeyMsg", key |-> k]
WindowSizeMsg(w, h) == [type |-> "tea.WindowSizeMsg", Width |-> w, Height |-> h]
TickMsg == [type |-> "spinner.TickMsg"]

IsKey(msg, k) == msg.type = "tea.KeyMsg" /\ msg.key = k

\* terminal sizes a resize event reports
Sizes == {<<96, 36>>, <<40, 10>>}

\* the input's character limit
CharLimit == 64

(***************************************************************************)
(* list.Model: the items (their labels), the highlighted index, the size.  *)
(***************************************************************************)
NewList(items) == [items |-> items, index |-> 0, width |-> 0, height |-> 0]

SetSize(l, w, h) == [l EXCEPT !.width = w, !.height = h]

Select(l, i) == [l EXCEPT !.index = i]

\* SelectedItem returns nil when no item is highlighted
HasSelectedItem(l) == l.index >= 0 /\ l.index < Len(l.items)

SelectedItem(l) == l.items[l.index + 1]

\* the cursor keys move the highlight, clamped to the list
ListUpdate(l, msg) ==
    IF IsKey(msg, "up") /\ l.index > 0 THEN [l EXCEPT !.index = @ - 1]
    ELSE IF IsKey(msg, "down") /\ l.index + 1 < Len(l.items) THEN [l EXCEPT !.index = @ + 1]
    ELSE l

\* selectListItem that takes the position in the slice, counted from 1, as the index
selectListItem_OneBased(l, label) ==
    LET hits == {i \in 1..Len(l.items) : EqualFold(l.items[i], label)}
    IN IF hits = {} THEN l
       ELSE Select(l, CHOOSE i \in hits : \A j \in hits : i <= j)

selectListItem(l, label) ==
    LET hits == {i \in 1..Len(l.items) : EqualFold(l.items[i], label)}
    IN IF hits = {} THEN l
       ELSE Select(l, (CHOOSE i \in hits : \A j \in hits : i <= j) - 1)

\* options[language] of a Go map: nil for a missing key
MapGet(map, key) == IF key \in DOMAIN map THEN map[key] ELSE << >>

\* buildFrameworkList without the call of uniqueStrings
buildFrameworkList_NoUnique(language, options, defaultFramework) ==
    LET listed == MapGet(options, language)
        frameworks == sortStrings(IF Len(listed) = 0 THEN <<Vanilla>> ELSE listed)
        model == NewList(frameworks)
    IN IF defaultFramework # EmptyStr THEN selectListItem(model, defaultFramework) ELSE model

buildFrameworkList(language, options, defaultFramework) ==
    LET listed == MapGet(options, language)
        frameworks == sortStrings(uniqueStrings(IF Len(listed) = 0 THEN <<Vanilla>> ELSE listed))
        model == NewList(frameworks)
    IN IF defaultFramework # EmptyStr THEN selectListItem(model, defaultFramework) ELSE model

\* selected[lib] of a Go map[string]bool: false for a missing key
IsSelected(selected, lib) == lib \in DOMAIN selected /\ selected[lib]

LibKey(language, framework) == language \o KeySep \o framework

buildLibraryItems(language, framework, options, selected) ==
    LET libraries == sortStrings(uniqueStrings(MapGet(options, LibKey(language, framework))))
    IN [i \in 1..Len(libraries) |->
            IF IsSelected(selected, libraries[i])
            THEN CheckedPrefix \o libraries[i]
            ELSE UncheckedPrefix \o libraries[i]]

buildLibrariesList(language, framework, options, selected) ==
    NewList(buildLibraryItems(language, framework, options, selected))

\* selectedLibraries that lists every key of the map, selected or not
selectedLibraries_AllKeys(selected) ==
    sortStrings(MapRange(DOMAIN selected))

selectedLibraries(selected) ==
    sortStrings(MapRange({name \in DOMAIN selected : selected[name]}))

(***************************************************************************)
(* textinput.Model: the buffer, the cursor, the width.                     *)
(***************************************************************************)
InsertRune(n, c) ==
    IF Len(n.value) >= CharLimit THEN n
    ELSE [n EXCEPT !.value = SubSeq(n.value, 1, n.pos) \o <<c>> \o SubSeq(n.value, n.pos + 1, Len(n.value)),
                   !.pos = @ + 1]

NameUpdate(n, msg) ==
    IF IsKey(msg, "b") THEN InsertRune(n, 98)
    ELSE IF IsKey(msg, " ") THEN InsertRune(n, 32)
    ELSE IF IsKey(msg, "backspace") /\ n.pos > 0
         THEN [n EXCEPT !.value = SubSeq(n.value, 1, n.pos - 1) \o SubSeq(n.value, n.pos + 1, Len(n.value)),
                        !.pos = @ - 1]
    ELSE IF IsKey(msg, "left") /\ n.pos > 0 THEN [n EXCEPT !.pos = @ - 1]
    ELSE n

(***************************************************************************)
(* The option catalog (scaffold.Options) and NewWizard.                    *)
(***************************************************************************)
Option(language, framework, libraries) ==
    [Language |-> language, Framework |-> framework, Libraries |-> libraries]

\* two languages; one pair with libraries; a language that does not list Vanilla
CatalogPlain ==
    << Option(Go, Vanilla, << >>), Option(Go, Cobra, <<Gorm, gin>>), Option(Py, Api, << >>) >>

\* a language listed twice with overlapping frameworks, spelled in two ways
CatalogOverlap ==
    << Option(Go, Cobra, <<gin>>), Option(Go, Vanilla, << >>), Option(Go, cobra, << >>) >>

\* no language configured
CatalogEmpty == << >>

\* the catalog, the default language and the default framework of one run
Configs ==
    { [catalog |-> CatalogPlain, defaultLanguage |-> Py, defaultFramework |-> cobra],
      [catalog |-> CatalogOverlap, defaultLanguage |-> EmptyStr, defaultFramework |-> EmptyStr],
      [catalog |-> CatalogEmpty, defaultLanguage |-> EmptyStr, defaultFramework |-> EmptyStr] }

RECURSIVE frameworksOf(_, _)
frameworksOf(catalog, language) ==
    IF Len(catalog) = 0 THEN << >>
    ELSE IF Head(catalog).Language = language
         THEN <<Head(catalog).Framework>> \o frameworksOf(Tail(catalog), language)
         ELSE frameworksOf(Tail(catalog), language)

RECURSIVE librariesOf(_, _)
librariesOf(catalog, key) ==
    IF Len(catalog) = 0 THEN << >>
    ELSE IF LibKey(Head(catalog).Language, Head(catalog).Framework) = key
         THEN Head(catalog).Libraries \o librariesOf(Tail(catalog), key)
         ELSE librariesOf(Tail(catalog), key)

NewWizard(catalog, defaultLanguage, defaultFramework) ==
    LET langs == {catalog[i].Language : i \in 1..Len(catalog)}
        keys == {LibKey(catalog[i].Language, catalog[i].Framework) :
                    i \in {j \in 1..Len(catalog) : Len(catalog[j].Libraries) > 0}}
        options == [lang \in langs |->
                        LET frameworks == frameworksOf(catalog, lang)
                        IN IF ~contains(frameworks, Vanilla) THEN <<Vanilla>> \o frameworks
                           ELSE frameworks]
        libOptions == [key \in keys |-> librariesOf(catalog, key)]
        langList == NewList(sortStrings(MapRange(langs)))
    IN [stage |-> stageLanguage,
        languages |-> IF defaultLanguage # EmptyStr THEN selectListItem(langList, defaultLanguage)
                      ELSE langList,
        framework |-> NewList(<< >>),
        libraries |-> NewList(<< >>),
        name |-> [value |-> EmptyStr, pos |-> 0, Width |-> 0],
        options |-> options,
        libOptions |-> libOptions,
        selectedLibs |-> << >>,
        result |-> [Language |-> defaultLanguage,
                    Framework |-> IF defaultFramework = EmptyStr THEN Vanilla ELSE defaultFramework,
                    Name |-> EmptyStr,
                    Libraries |-> << >>],
        err |-> ErrNil,
        nameErr |-> EmptyStr,
        width |-> 0, height |-> 0, panelW |-> 0, panelH |-> 0,
        titleFrame |-> 0]

\* ResultFromModel without the check of m.err
ResultFromModel_NoErrCheck(mm) == [result |-> mm.result, err |-> ErrNil]

ResultFromModel(mm) ==
    IF mm.err # ErrNil
    THEN [result |-> [Language |-> EmptyStr, Framework |-> EmptyStr, Name |-> EmptyStr, Libraries |-> << >>],
          err |-> mm.err]
    ELSE [result |-> mm.result, err |-> ErrNil]

(***************************************************************************)
(* The handlers of the wizard.  Each returns the model and the commands.   *)
(***************************************************************************)
Return(mm, cmd) == [m |-> mm, cmd |-> cmd]

listHeightFixed(mm) == clamp(mm.panelH - 14, 6, 30)

\* back() that leaves Libraries for Language instead of Framework
back_ToLanguage(mm) ==
    IF mm.stage = stageFramework THEN [mm EXCEPT !.stage = stageLanguage]
    ELSE IF mm.stage = stageLibraries THEN [mm EXCEPT !.stage = stageLanguage]
    ELSE IF mm.stage = stageName
         THEN IF Len(mm.libraries.items) > 0
              THEN [mm EXCEPT !.stage = stageLibraries]
              ELSE [mm EXCEPT !.stage = stageFramework]
    ELSE IF mm.stage = stageConfirm THEN [mm EXCEPT !.stage = stageName]
    ELSE mm

\* back() that drops the library selection when it leaves Confirm
back_ClearLibraries(mm) ==
    IF mm.stage = stageFramework THEN [mm EXCEPT !.stage = stageLanguage]
    ELSE IF mm.stage = stageLibraries THEN [mm EXCEPT !.stage = stageFramework]
    ELSE IF mm.stage = stageName
         THEN IF Len(mm.libraries.items) > 0
              THEN [mm EXCEPT !.stage = stageLibraries]
              ELSE [mm EXCEPT !.stage = stageFramework]
    ELSE IF mm.stage = stageConfirm
         THEN [mm EXCEPT !.stage = stageName, !.selectedLibs = << >>, !.result.Libraries = << >>]
    ELSE mm

\* back() that empties the result fields of the stage it enters and of the later stages
back_ClearDownstream(mm) ==
    IF mm.stage = stageFramework
    THEN [mm EXCEPT !.stage = stageLanguage,
                    !.result = [Language |-> EmptyStr, Framework |-> EmptyStr,
                                Name |-> EmptyStr, Libraries |-> << >>]]
    ELSE IF mm.stage = stageLibraries
    THEN [mm EXCEPT !.stage = stageFramework,
                    !.result = [@ EXCEPT !.Framework = EmptyStr, !.Name = EmptyStr, !.Libraries = << >>]]
    ELSE IF mm.stage = stageName
         THEN IF Len(mm.libraries.items) > 0
              THEN [mm EXCEPT !.stage = stageLibraries]
              ELSE [mm EXCEPT !.stage = stageFramework]
    ELSE IF mm.stage = stageConfirm
         THEN [mm EXCEPT !.stage = stageName,
                         !.result = [@ EXCEPT !.Name = EmptyStr, !.Libraries = << >>]]
    ELSE mm

back(mm) ==
    IF mm.stage = stageFramework THEN [mm EXCEPT !.stage = stageLanguage]
    ELSE IF mm.stage = stageLibraries THEN [mm EXCEPT !.stage = stageFramework]
    ELSE IF mm.stage = stageName
         THEN IF Len(mm.libraries.items) > 0
              THEN [mm EXCEPT !.stage = stageLibraries]
              ELSE [mm EXCEPT !.stage = stageFramework]
    ELSE IF mm.stage = stageConfirm THEN [mm EXCEPT !.stage = stageName]
    ELSE mm

\* the tea.WindowSizeMsg case that restarts the title animation
windowSize_ResetFrame(mm, msg) ==
    LET panelW == clamp((msg.Width * 4) \div 5, 64, msg.Width - 4)
        panelH == clamp((msg.Height * 4) \div 5, 28, msg.Height - 4)
        sized == [mm EXCEPT !.width = msg.Width, !.height = msg.Height,
                            !.panelW = panelW, !.panelH = panelH, !.titleFrame = 0]
        listWidth == clamp(panelW - 8, 56, 100)
        listHeight == listHeightFixed(sized)
    IN [sized EXCEPT !.languages = SetSize(@, listWidth, listHeight),
                     !.framework = SetSize(@, listWidth, listHeight),
                     !.libraries = SetSize(@, listWidth, listHeight),
                     !.name.Width = clamp(panelW - 14, 24, 72)]

\* the tea.WindowSizeMsg case that sizes the lists from the panel height before the event
windowSize_StaleHeight(mm, msg) ==
    LET panelW == clamp((msg.Width * 4) \div 5, 64, msg.Width - 4)
        panelH == clamp((msg.Height * 4) \div 5, 28, msg.Height - 4)
        sized == [mm EXCEPT !.width = msg.Width, !.height = msg.Height,
                            !.panelW = panelW, !.panelH = panelH]
        listWidth == clamp(panelW - 8, 56, 100)
        listHeight == listHeightFixed(mm)
    IN [sized EXCEPT !.languages = SetSize(@, listWidth, listHeight),
                     !.framework = SetSize(@, listWidth, listHeight),
                     !.libraries = SetSize(@, listWidth, listHeight),
                     !.name.Width = clamp(panelW - 14, 24, 72)]

\* the tea.WindowSizeMsg case of Update; int(float64(n)*0.80) is n*4/5 rounded down
windowSize(mm, msg) ==
    LET panelW == clamp((msg.Width * 4) \div 5, 64, msg.Width - 4)
        panelH == clamp((msg.Height * 4) \div 5, 28, msg.Height - 4)
        sized == [mm EXCEPT !.width = msg.Width, !.height = msg.Height,
                            !.panelW = panelW, !.panelH = panelH]
        listWidth == clamp(panelW - 8, 56, 100)
        listHeight == listHeightFixed(sized)
    IN [sized EXCEPT !.languages = SetSize(@, listWidth, listHeight),
                     !.framework = SetSize(@, listWidth, listHeight),
                     !.libraries = SetSize(@, listWidth, listHeight),
                     !.name.Width = clamp(panelW - 14, 24, 72)]

\* updateLanguage that goes on with the language of the result when nothing is highlighted
updateLanguage_GuessDefault(mm, msg) ==
    LET m1 == [mm EXCEPT !.languages = ListUpdate(@, msg)]
    IN IF IsKey(msg, "enter")
       THEN LET language == IF HasSelectedItem(m1.languages) THEN SelectedItem(m1.languages)
                            ELSE m1.result.Language
                framework == buildFrameworkList(language, m1.options, m1.result.Framework)
            IN Return([m1 EXCEPT !.result.Language = language,
                                 !.framework = SetSize(framework, m1.languages.width, listHeightFixed(m1)),
                                 !.stage = stageFramework], {})
       ELSE Return(m1, {})

\* updateLanguage that puts the framework of the result back to Vanilla
updateLanguage_ResetFramework(mm, msg) ==
    LET m1 == [mm EXCEPT !.languages = ListUpdate(@, msg)]
    IN IF IsKey(msg, "enter")
       THEN IF ~HasSelectedItem(m1.languages)
            THEN Return([m1 EXCEPT !.err = ErrNoLanguage], {Quit})
            ELSE LET language == SelectedItem(m1.languages)
                     framework == buildFrameworkList(language, m1.options, Vanilla)
                 IN Return([m1 EXCEPT !.result.Language = language,
                                      !.result.Framework = Vanilla,
                                      !.framework = SetSize(framework, m1.languages.width, listHeightFixed(m1)),
                                      !.stage = stageFramework], {})
       ELSE Return(m1, {})

updateLanguage(mm, msg) ==
    LET m1 == [mm EXCEPT !.languages = ListUpdate(@, msg)]
    IN IF IsKey(msg, "enter")
       THEN IF ~HasSelectedItem(m1.languages)
            THEN Return([m1 EXCEPT !.err = ErrNoLanguage], {Quit})
            ELSE LET language == SelectedItem(m1.languages)
                     framework == buildFrameworkList(language, m1.options, m1.result.Framework)
                 IN Return([m1 EXCEPT !.result.Language = language,
                                      !.framework = SetSize(framework, m1.languages.width, listHeightFixed(m1)),
                                      !.stage = stageFramework], {})
       ELSE Return(m1, {})

\* updateFramework that keeps selectedLibs across the confirm
updateFramework_KeepSelected(mm, msg) ==
    LET m1 == [mm EXCEPT !.framework = ListUpdate(@, msg)]
    IN IF IsKey(msg, "enter")
       THEN IF ~HasSelectedItem(m1.framework)
            THEN Return([m1 EXCEPT !.err = ErrNoFramework], {Quit})
            ELSE LET framework == SelectedItem(m1.framework)
                     libraries == buildLibrariesList(m1.result.Language, framework, m1.libOptions,
                                                     m1.selectedLibs)
                 IN Return([m1 EXCEPT !.result.Framework = framework,
                                      !.libraries = SetSize(libraries, m1.framework.width, listHeightFixed(m1)),
                                      !.stage = IF Len(libraries.items) = 0 THEN stageName
                                                ELSE stageLibraries], {})
       ELSE Return(m1, {})

\* updateFramework that enters Libraries even when the list is empty
updateFramework_NoSkip(mm, msg) ==
    LET m1 == [mm EXCEPT !.framework = ListUpdate(@, msg)]
    IN IF IsKey(msg, "enter")
       THEN IF ~HasSelectedItem(m1.framework)
            THEN Return([m1 EXCEPT !.err = ErrNoFramework], {Quit})
            ELSE LET framework == SelectedItem(m1.framework)
                     libraries == buildLibrariesList(m1.result.Language, framework, m1.libOptions, << >>)
                 IN Return([m1 EXCEPT !.result.Framework = framework,
                                      !.selectedLibs = << >>,
                                      !.libraries = SetSize(libraries, m1.framework.width, listHeightFixed(m1)),
                                      !.stage = stageLibraries], {})
       ELSE Return(m1, {})

updateFramework(mm, msg) ==
    LET m1 == [mm EXCEPT !.framework = ListUpdate(@, msg)]
    IN IF IsKey(msg, "enter")
       THEN IF ~HasSelectedItem(m1.framework)
            THEN Return([m1 EXCEPT !.err = ErrNoFramework], {Quit})
            ELSE LET framework == SelectedItem(m1.framework)
                     libraries == buildLibrariesList(m1.result.Language, framework, m1.libOptions, << >>)
                 IN Return([m1 EXCEPT !.result.Framework = framework,
                                      !.selectedLibs = << >>,
                                      !.libraries = SetSize(libraries, m1.framework.width, listHeightFixed(m1)),
                                      !.stage = IF Len(libraries.items) = 0 THEN stageName
                                                ELSE stageLibraries], {})
       ELSE Return(m1, {})

\* a toggle that only ever selects
Toggle_SetOnly(selected, name) ==
    [n \in DOMAIN selected \cup {name} |-> IF n = name THEN TRUE ELSE selected[n]]

\* m.selectedLibs[name] = !m.selectedLibs[name]
Toggle(selected, name) ==
    [n \in DOMAIN selected \cup {name} |->
        IF n = name THEN ~IsSelected(selected, name) ELSE selected[n]]

\* updateLibraries that does not restore the highlight after rebuilding the list
updateLibraries_NoSelect(mm, msg) ==
    LET m1 == [mm EXCEPT !.libraries = ListUpdate(@, msg)]
    IN IF IsKey(msg, " ")
       THEN IF HasSelectedItem(m1.libraries)
            THEN LET name == TrimPrefix(TrimPrefix(SelectedItem(m1.libraries), CheckedPrefix), UncheckedPrefix)
                     selected == Toggle(m1.selectedLibs, name)
                     built == SetSize(buildLibrariesList(m1.result.Language, m1.result.Framework,
                                                         m1.libOptions, selected),
                                      m1.framework.width, listHeightFixed(m1))
                 IN Return([m1 EXCEPT !.selectedLibs = selected, !.libraries = built], {})
            ELSE Return(m1, {})
       ELSE IF IsKey(msg, "enter") THEN Return([m1 EXCEPT !.stage = stageName], {})
       ELSE Return(m1, {})

updateLibraries(mm, msg) ==
    LET m1 == [mm EXCEPT !.libraries = ListUpdate(@, msg)]
    IN IF IsKey(msg, " ")
       THEN IF HasSelectedItem(m1.libraries)
            THEN LET idx == m1.libraries.index
                     name == TrimPrefix(TrimPrefix(SelectedItem(m1.libraries), CheckedPrefix), UncheckedPrefix)
                     selected == Toggle(m1.selectedLibs, name)
                     built == SetSize(buildLibrariesList(m1.result.Language, m1.result.Framework,
                                                         m1.libOptions, selected),
                                      m1.framework.width, listHeightFixed(m1))
                 IN Return([m1 EXCEPT !.selectedLibs = selected,
                                      !.libraries = IF idx < Len(built.items) THEN Select(built, idx)
                                                    ELSE built], {})
            ELSE Return(m1, {})
       ELSE IF IsKey(msg, "enter") THEN Return([m1 EXCEPT !.stage = stageName], {})
       ELSE Return(m1, {})

\* updateName that stores the buffer as it was typed
updateName_NoTrim(mm, msg) ==
    LET m1 == [mm EXCEPT !.name = NameUpdate(@, msg)]
    IN IF IsKey(msg, "enter")
       THEN LET value == TrimSpace(m1.name.value)
            IN IF value = EmptyStr
               THEN Return([m1 EXCEPT !.err = ErrNameRequired], {Quit})
               ELSE Return([m1 EXCEPT !.result.Name = m1.name.value,
                                      !.result.Libraries = selectedLibraries(m1.selectedLibs),
                                      !.stage = stageConfirm], {})
       ELSE Return(m1, {})

updateName(mm, msg) ==
    LET m1 == [mm EXCEPT !.name = NameUpdate(@, msg)]
    IN IF IsKey(msg, "enter")
       THEN LET value == TrimSpace(m1.name.value)
            IN IF value = EmptyStr
               THEN Return([m1 EXCEPT !.err = ErrNameRequired], {Quit})
               ELSE Return([m1 EXCEPT !.result.Name = value,
                                      !.result.Libraries = selectedLibraries(m1.selectedLibs),
                                      !.stage = stageConfirm], {})
       ELSE Return(m1, {})

updateConfirm(mm, msg) ==
    IF IsKey(msg, "enter") THEN Return([mm EXCEPT !.stage = stageDone], {Quit})
    ELSE Return(mm, {})

\* Update that takes the back keys in stage Name too
Update_BackInName(mm, msg) ==
    IF msg.type = "tea.KeyMsg" /\ msg.key \in CancelKeys
    THEN Return([mm EXCEPT !.err = ErrCancelled], {Quit})
    ELSE IF msg.type = "tea.KeyMsg" /\ msg.key \in BackKeys
    THEN Return(back(mm), {})
    ELSE LET m1 == IF msg.type = "tea.WindowSizeMsg" THEN windowSize(mm, msg) ELSE mm
             spinCmd == IF msg.type = "spinner.TickMsg" THEN {Tick} ELSE {}
             m2 == IF msg.type = "spinner.TickMsg" THEN [m1 EXCEPT !.titleFrame = @ + 1] ELSE m1
             staged == IF m2.stage = stageLanguage THEN updateLanguage(m2, msg)
                       ELSE IF m2.stage = stageFramework THEN updateFramework(m2, msg)
                       ELSE IF m2.stage = stageLibraries THEN updateLibraries(m2, msg)
                       ELSE IF m2.stage = stageName THEN updateName(m2, msg)
                       ELSE updateConfirm(m2, msg)
         IN IF m2.stage = stageDone THEN Return(m2, {Quit})
            ELSE IF m2.stage \in stageLanguage..stageConfirm
                 THEN Return(staged.m, staged.cmd \cup spinCmd)
            ELSE Return(m2, spinCmd)

\* Update that counts a frame on every message, not only on a spinner.TickMsg
Update_FrameOnEveryMsg(mm, msg) ==
    IF msg.type = "tea.KeyMsg" /\ msg.key \in CancelKeys
    THEN Return([mm EXCEPT !.err = ErrCancelled], {Quit})
    ELSE IF msg.type = "tea.KeyMsg" /\ msg.key \in BackKeys /\ mm.stage # stageName
    THEN Return(back(mm), {})
    ELSE LET m1 == IF msg.type = "tea.WindowSizeMsg" THEN windowSize(mm, msg) ELSE mm
             spinCmd == IF msg.type = "spinner.TickMsg" THEN {Tick} ELSE {}
             m2 == [m1 EXCEPT !.titleFrame = @ + 1]
             staged == IF m2.stage = stageLanguage THEN updateLanguage(m2, msg)
                       ELSE IF m2.stage = stageFramework THEN updateFramework(m2, msg)
                       ELSE IF m2.stage = stageLibraries THEN updateLibraries(m2, msg)
                       ELSE IF m2.stage = stageName THEN updateName(m2, msg)
                       ELSE updateConfirm(m2, msg)
         IN IF m2.stage = stageDone THEN Return(m2, {Quit})
            ELSE IF m2.stage \in stageLanguage..stageConfirm
                 THEN Return(staged.m, staged.cmd \cup spinCmd)
            ELSE Return(m2, spinCmd)

Update(mm, msg) ==
    IF msg.type = "tea.KeyMsg" /\ msg.key \in CancelKeys
    THEN Return([mm EXCEPT !.err = ErrCancelled], {Quit})
    ELSE IF msg.type = "tea.KeyMsg" /\ msg.key \in BackKeys /\ mm.stage # stageName
    THEN Return(back(mm), {})
    ELSE LET m1 == IF msg.type = "tea.WindowSizeMsg" THEN windowSize(mm, msg) ELSE mm
             spinCmd == IF msg.type = "spinner.TickMsg" THEN {Tick} ELSE {}
             m2 == IF msg.type = "spinner.TickMsg" THEN [m1 EXCEPT !.titleFrame = @ + 1] ELSE m1
             staged == IF m2.stage = stageLanguage THEN updateLanguage(m2, msg)
                       ELSE IF m2.stage = stageFramework THEN updateFramework(m2, msg)
                       ELSE IF m2.stage = stageLibraries THEN updateLibraries(m2, msg)
                       ELSE IF m2.stage = stageName THEN updateName(m2, msg)
                       ELSE updateConfirm(m2, msg)
         IN IF m2.stage = stageDone THEN Return(m2, {Quit})
            ELSE IF m2.stage \in stageLanguage..stageConfirm
                 THEN Return(staged.m, staged.cmd \cup spinCmd)
            ELSE Return(m2, spinCmd)

(***************************************************************************)
(* The program: tea.NewProgram(NewWizard(...)).Run().  The event loop      *)
(* hands the messages to Update one at a time; a tea.Quit command puts a   *)
(* QuitMsg in flight and the loop ends when it is delivered, messages      *)
(* that arrive before it are still handed to Update.                       *)
(***************************************************************************)
(***************************************************************************)
(* The springs.  helpers.go reads panelReady, panelScale, transActive and  *)
(* transOffset; the code that writes them is modelled from the             *)
(* specification of the spring integrator and of the smooth timer.         *)
(* Positions are fixed-point numbers: Unit is 1.0 of a normalized spring,  *)
(* PixelUnit one column of a pixel-scale spring.  A velocity is the change *)
(* of the position over one timestep, so the timestep is 1.                *)
(***************************************************************************)
Unit == 10000

PixelUnit == 100

\* the quotient rounded toward zero
Quot(a, b) == IF a >= 0 THEN a \div b ELSE -((-a) \div b)

absF(x) == IF x < 0 THEN -x ELSE x

\* angular frequency and damping ratio of a spring, as the hundredths of the
\* stiffness (omega squared) and of the damping (2 zeta omega): the entrance spring
\* is under-damped (zeta about 0.47), the transition spring more heavily (0.8)
entranceSpring == [stiffness |-> 40, damping |-> 60]

transitionSpring == [stiffness |-> 25, damping |-> 80]

\* springUpdate that steps the position by the velocity of before the step and
\* leaves the damping out
springUpdate_Undamped(spring, pos, vel, target) ==
    <<pos + vel, vel + Quot(spring.stiffness * (target - pos), 100)>>

\* one timestep of the damped harmonic oscillator: <<position, velocity>> after it
springUpdate(spring, pos, vel, target) ==
    LET v == vel + Quot(spring.stiffness * (target - pos) - spring.damping * vel, 100)
    IN <<pos + v, v>>

\* 0.001 for the normalized spring, 0.5 for the pixel-scale spring
entranceEps == Unit \div 1000

transitionEps == PixelUnit \div 2

settled(pos, vel, target, eps) == absF(pos - target) < eps /\ absF(vel) < eps

\* the springs at rest and at zero when the wizard starts; transTicks counts the
\* smooth ticks of the transition under way
NewAnimation ==
    [panelScale |-> 0, panelVel |-> 0, panelReady |-> FALSE,
     transActive |-> FALSE, transOffset |-> 0, transVel |-> 0, transTicks |-> 0]

\* triggerTransition that adds the width to the offset under way
triggerTransition_Blend(a, mm, forward) ==
    LET W == contentWidth(mm) * PixelUnit
    IN [a EXCEPT !.transActive = TRUE,
                 !.transOffset = @ + (IF forward THEN W ELSE -W),
                 !.transTicks = 0]

triggerTransition(a, mm, forward) ==
    LET W == contentWidth(mm) * PixelUnit
    IN [a EXCEPT !.transActive = TRUE,
                 !.transVel = 0,
                 !.transOffset = IF forward THEN W ELSE -W,
                 !.transTicks = 0]

\* the entrance spring stepped once, unless the panel is ready
stepEntrance(a) ==
    LET e == springUpdate(entranceSpring, a.panelScale, a.panelVel, Unit)
    IN IF a.panelReady THEN a
       ELSE IF settled(e[1], e[2], Unit, entranceEps)
            THEN [a EXCEPT !.panelScale = Unit, !.panelVel = 0, !.panelReady = TRUE]
            ELSE [a EXCEPT !.panelScale = e[1], !.panelVel = e[2]]

\* the transition spring stepped once, while a transition is active
stepTransition(a) ==
    LET t == springUpdate(transitionSpring, a.transOffset, a.transVel, 0)
    IN IF ~a.transActive THEN a
       ELSE IF settled(t[1], t[2], 0, transitionEps)
            THEN [a EXCEPT !.transOffset = 0, !.transVel = 0, !.transActive = FALSE,
                           !.transTicks = @ + 1]
            ELSE [a EXCEPT !.transOffset = t[1], !.transVel = t[2], !.transTicks = @ + 1]

\* smoothTick that schedules its successor whatever the springs do
smoothTick_AlwaysAgain(a) ==
    [anim |-> stepTransition(stepEntrance(a)), again |-> TRUE]

\* smoothTick that takes the panel for ready as soon as it is as large as its target
smoothTick_ReadyAtTarget(a) ==
    LET e == stepEntrance(a)
        ready == [e EXCEPT !.panelReady = (e.panelScale >= Unit)]
        after == stepTransition(ready)
    IN [anim |-> after, again |-> ~after.panelReady \/ after.transActive]

\* smoothTick that stops a transition without waiting for the spring to settle
smoothTick_NoSettle(a) ==
    LET e == stepEntrance(a)
        t == springUpdate(transitionSpring, e.transOffset, e.transVel, 0)
        after == IF ~e.transActive THEN e
                 ELSE [e EXCEPT !.transOffset = t[1], !.transVel = t[2],
                                !.transActive = FALSE, !.transTicks = @ + 1]
    IN [anim |-> after, again |-> ~after.panelReady \/ after.transActive]

\* the smooth timer's message: both springs stepped once, and whether the timer
\* schedules its successor
smoothTick(a) ==
    LET after == stepTransition(stepEntrance(a))
    IN [anim |-> after, again |-> ~after.panelReady \/ after.transActive]

\* the greatest common divisor of a and b
RECURSIVE gcd(_, _)
gcd(a, b) == IF b = 0 THEN a ELSE gcd(b, a % b)

\* the float64 quotient n / d, as the fraction in lowest terms
Frac(n, d) == <<n \div gcd(n, d), d \div gcd(n, d)>>

\* stageProgress that counts four steps whatever the Libraries list holds
stageProgress_FourSteps(mm) ==
    IF mm.stage = stageLanguage THEN Frac(0, 1)
    ELSE IF mm.stage = stageFramework THEN Frac(1, 4)
    ELSE IF mm.stage = stageLibraries THEN Frac(2, 4)
    ELSE IF mm.stage = stageName THEN Frac(3, 4)
    ELSE IF mm.stage = stageConfirm THEN Frac(1, 1)
    ELSE Frac(0, 1)

stageProgress(mm) ==
    LET hasLibs == Len(mm.libraries.items) > 0
        totalSteps == IF hasLibs THEN 4 ELSE 3
    IN IF mm.stage = stageLanguage THEN Frac(0, 1)
       ELSE IF mm.stage = stageFramework THEN Frac(1, totalSteps)
       ELSE IF mm.stage = stageLibraries THEN Frac(2, totalSteps)
       ELSE IF mm.stage = stageName
            THEN IF hasLibs THEN Frac(3, totalSteps) ELSE Frac(2, totalSteps)
       ELSE IF mm.stage = stageConfirm THEN Frac(1, 1)
       ELSE Frac(0, 1)

(***************************************************************************)
(* Rendering.  A frame is modelled by what it is laid out from: the sizes, *)
(* the columns of the title revealed, the progress, the offset of the      *)
(* content and the content of the stage.                                   *)
(***************************************************************************)
\* the receiver of renderFrame, a copy of the model, after the defaults are written
frameDefaults(mm) ==
    [mm EXCEPT !.width = IF @ = 0 THEN 96 ELSE @,
               !.height = IF @ = 0 THEN 36 ELSE @,
               !.panelW = IF @ = 0 THEN 88 ELSE @,
               !.panelH = IF @ = 0 THEN 32 ELSE @]

\* renderFrame: the frame, and the receiver as renderFrame leaves it
renderFrame(mm, a, content) ==
    LET local == frameDefaults(mm)
        scaledW == (local.panelW * a.panelScale) \div Unit
        scaledH == (local.panelH * a.panelScale) \div Unit
        pw == IF a.panelReady THEN local.panelW ELSE IF scaledW < 1 THEN 1 ELSE scaledW
        ph == IF a.panelReady THEN local.panelH ELSE IF scaledH < 1 THEN 1 ELSE scaledH
        width == IF pw - 6 < 1 THEN 1 ELSE pw - 6
    IN [out |-> [kind |-> "frame",
                 width |-> local.width, height |-> local.height,
                 panelW |-> pw, panelH |-> ph, contentWidth |-> width,
                 innerHeight |-> IF ph - 4 < 1 THEN 1 ELSE ph - 4,
                 revealed |-> revealedCols(local.titleFrame),
                 progress |-> stageProgress(local),
                 stage |-> local.stage,
                 offset |-> IF a.transActive THEN Quot(a.transOffset, PixelUnit) ELSE 0,
                 content |-> content],
        m |-> local]

\* what the stage shows inside the frame
stageContent(mm) ==
    IF mm.stage = stageLanguage THEN <<mm.languages.items, mm.languages.index>>
    ELSE IF mm.stage = stageFramework THEN <<mm.framework.items, mm.framework.index>>
    ELSE IF mm.stage = stageLibraries THEN <<mm.libraries.items, mm.libraries.index>>
    ELSE IF mm.stage = stageName THEN <<mm.name.value, mm.name.pos>>
    ELSE <<mm.result.Language, mm.result.Framework, mm.result.Libraries, mm.result.Name>>

\* View with a pointer receiver: what renderFrame writes reaches the model held
View_PointerReceiver(mm, a) ==
    IF mm.err # ErrNil THEN [out |-> [kind |-> "error", err |-> mm.err], m |-> mm, anim |-> a]
    ELSE IF mm.stage = stageDone THEN [out |-> [kind |-> "done"], m |-> mm, anim |-> a]
    ELSE [out |-> renderFrame(mm, a, stageContent(mm)).out,
          m |-> renderFrame(mm, a, stageContent(mm)).m,
          anim |-> a]

\* View: the output, and the model and the springs the program holds after the call;
\* the receiver is a copy, so what renderFrame writes to it is dropped
View(mm, a) ==
    IF mm.err # ErrNil THEN [out |-> [kind |-> "error", err |-> mm.err], m |-> mm, anim |-> a]
    ELSE IF mm.stage = stageDone THEN [out |-> [kind |-> "done"], m |-> mm, anim |-> a]
    ELSE [out |-> renderFrame(mm, a, stageContent(mm)).out, m |-> mm, anim |-> a]

(***************************************************************************)
(* applyHorizontalOffset.  A text is a string that holds line feeds (10).  *)
(***************************************************************************)
\* strings.Split(text, "\n"), cur being the line under way
RECURSIVE splitFrom(_, _)
splitFrom(text, cur) ==
    IF Len(text) = 0 THEN <<cur>>
    ELSE IF Head(text) = 10 THEN <<cur>> \o splitFrom(Tail(text), << >>)
    ELSE splitFrom(Tail(text), Append(cur, Head(text)))

Split(text) == splitFrom(text, << >>)

\* strings.Join(lines, "\n")
RECURSIVE Join(_)
Join(lines) ==
    IF Len(lines) = 0 THEN << >>
    ELSE IF Len(lines) = 1 THEN lines[1]
    ELSE lines[1] \o <<10>> \o Join(Tail(lines))

\* strings.Repeat(" ", n)
Repeat(n) == [i \in 1..n |-> 32]

\* one pass of the loop of applyHorizontalOffset
shiftLine(runes, offset, maxWidth) ==
    IF offset > 0
    THEN LET sr == Repeat(offset) \o runes
         IN IF Len(sr) > maxWidth THEN SubSeq(sr, 1, maxWidth) ELSE sr
    ELSE LET drop == -offset
             shifted == SubSeq(runes, drop + 1, Len(runes))
         IN IF drop >= Len(runes) THEN Repeat(maxWidth)
            ELSE IF Len(shifted) < maxWidth THEN shifted \o Repeat(maxWidth - Len(shifted))
            ELSE shifted

applyHorizontalOffset(text, offset, maxWidth) ==
    IF offset = 0 \/ maxWidth <= 0 THEN text
    ELSE LET lines == Split(text)
         IN Join([i \in 1..Len(lines) |-> shiftLine(lines[i], offset, maxWidth)])

(***************************************************************************)
(* The application around the wizard: the request built from the final     *)
(* model, the planner's lookup, the exit status of Run.                    *)
(***************************************************************************)
\* buildRequest when the flags name no language, framework or name, so that the wizard
\* runs: << >> for no request
buildRequest(final) ==
    LET r == ResultFromModel(final)
    IN IF r.err # ErrNil THEN [request |-> << >>, err |-> r.err]
       ELSE [request |-> <<[Language |-> r.result.Language, Framework |-> r.result.Framework,
                            Name |-> r.result.Name, Libraries |-> r.result.Libraries]>>,
             err |-> ErrNil]

\* findOption / Planner.findFramework: whether the catalog has a template for the pair
findOption(catalog, lang, framework) ==
    \E i \in 1..Len(catalog) :
        /\ EqualFold(catalog[i].Language, TrimSpace(lang))
        /\ EqualFold(catalog[i].Framework, TrimSpace(framework))

ErrNoTemplate == "no template for"

\* the error of Plan, ErrNil when it returns a plan
Plan(catalog, req) ==
    IF ~findOption(catalog, req.Language, req.Framework) THEN ErrNoTemplate
    ELSE IF TrimSpace(req.Name) = EmptyStr THEN ErrNameRequired
    ELSE ErrNil

\* Run up to the plan: the exit status, what is written to stderr, the request
Run(parseErr, configErr, final, catalog) ==
    LET built == buildRequest(final)
    IN IF parseErr # ErrNil THEN [status |-> 2, stderr |-> parseErr, request |-> << >>]
       ELSE IF configErr # ErrNil THEN [status |-> 2, stderr |-> configErr, request |-> << >>]
       ELSE IF built.err # ErrNil THEN [status |-> 2, stderr |-> built.err, request |-> << >>]
       ELSE IF Plan(catalog, built.request[1]) # ErrNil
            THEN [status |-> 1, stderr |-> Plan(catalog, built.request[1]), request |-> built.request]
       ELSE [status |-> 0, stderr |-> ErrNil, request |-> built.request]

ErrFlags == "flag provided but not defined"

ErrConfig == "config error"

(***************************************************************************)
(* The file system and Apply.  A file system is a function from the paths  *)
(* that exist to their content.                                            *)
(***************************************************************************)
NoFiles == [path \in {} |-> ""]

NotApplying == [pc |-> "idle", i |-> 0, err |-> ErrNil]

ErrFileExists == "file already exists"

ErrStat == "check file existence"

ErrWrite == "write file"

\* os.WriteFile
WriteFile(fs, path, content) ==
    [p \in DOMAIN fs \cup {path} |-> IF p = path THEN content ELSE fs[p]]

\* Apply that checks a path just before it writes it, in one loop
applyStep_CheckWhileWriting(a, fs, actions, dryRun, ok) ==
    IF a.pc = "check" THEN [apply |-> [a EXCEPT !.pc = "write", !.i = 1], files |-> fs]
    ELSE IF a.i > Len(actions) THEN [apply |-> [a EXCEPT !.pc = "done"], files |-> fs]
    ELSE IF actions[a.i].Path \in DOMAIN fs
         THEN [apply |-> [a EXCEPT !.pc = "done", !.err = ErrFileExists], files |-> fs]
    ELSE IF dryRun THEN [apply |-> [a EXCEPT !.i = @ + 1], files |-> fs]
    ELSE IF ~ok THEN [apply |-> [a EXCEPT !.pc = "done", !.err = ErrWrite], files |-> fs]
    ELSE [apply |-> [a EXCEPT !.i = @ + 1],
          files |-> WriteFile(fs, actions[a.i].Path, actions[a.i].Content)]

\* one pass of a loop of Apply; ok says whether the system call of the pass succeeds
\* (os.Stat answering that the path exists or not, os.MkdirAll and os.WriteFile)
applyStep(a, fs, actions, dryRun, ok) ==
    IF a.pc = "check"
    THEN IF a.i > Len(actions) THEN [apply |-> [a EXCEPT !.pc = "write", !.i = 1], files |-> fs]
         ELSE IF actions[a.i].Path \in DOMAIN fs
              THEN [apply |-> [a EXCEPT !.pc = "done", !.err = ErrFileExists], files |-> fs]
         ELSE IF ~ok THEN [apply |-> [a EXCEPT !.pc = "done", !.err = ErrStat], files |-> fs]
         ELSE [apply |-> [a EXCEPT !.i = @ + 1], files |-> fs]
    ELSE IF a.i > Len(actions) THEN [apply |-> [a EXCEPT !.pc = "done"], files |-> fs]
    ELSE IF dryRun THEN [apply |-> [a EXCEPT !.i = @ + 1], files |-> fs]
    ELSE IF ~ok THEN [apply |-> [a EXCEPT !.pc = "done", !.err = ErrWrite], files |-> fs]
    ELSE [apply |-> [a EXCEPT !.i = @ + 1],
          files |-> WriteFile(fs, actions[a.i].Path, actions[a.i].Content)]

(***************************************************************************)
(* The configuration store: Save writes the document of a Config to a      *)
(* path, Load reads it back.  A document is the sequence of the members    *)
(* of the JSON object, each a key and a string.                            *)
(***************************************************************************)
ProjectsDir == <<47, 109, 110, 116, 47, 68, 101, 118, 47, 80, 114, 111, 106, 101, 99, 116, 115>>

Config(language, framework, dir) ==
    [DefaultLanguage |-> language, DefaultFramework |-> framework, DefaultDir |-> dir]

Default == Config(Go, Cobra, ProjectsDir)

defaultConfigPath == "~/.project-initiator.json"

\* json.MarshalIndent of a Config
Marshal(cfg) ==
    << <<"defaultLanguage", cfg.DefaultLanguage>>,
       <<"defaultFramework", cfg.DefaultFramework>>,
       <<"defaultDir", cfg.DefaultDir>> >>

\* the string of the last member of the document with the key, "" when there is none
RECURSIVE member(_, _, _)
member(doc, key, value) ==
    IF Len(doc) = 0 THEN value
    ELSE member(Tail(doc), key, IF Head(doc)[1] = key THEN Head(doc)[2] ELSE value)

\* json.Unmarshal into a Config
Unmarshal(doc) ==
    Config(member(doc, "defaultLanguage", EmptyStr),
           member(doc, "defaultFramework", EmptyStr),
           member(doc, "defaultDir", EmptyStr))

applyDefaults(cfg) ==
    Config(IF cfg.DefaultLanguage = EmptyStr THEN Default.DefaultLanguage ELSE cfg.DefaultLanguage,
           IF cfg.DefaultFramework = EmptyStr THEN Default.DefaultFramework ELSE cfg.DefaultFramework,
           IF cfg.DefaultDir = EmptyStr THEN Default.DefaultDir ELSE cfg.DefaultDir)

Load(fs, path) ==
    LET file == IF path = "" THEN defaultConfigPath ELSE path
    IN IF file \notin DOMAIN fs THEN [cfg |-> Default, err |-> ErrNil]
       ELSE [cfg |-> applyDefaults(Unmarshal(fs[file])), err |-> ErrNil]

\* Save that leaves a file that exists as it is
Save_KeepExisting(fs, path, cfg) ==
    LET file == IF path = "" THEN defaultConfigPath ELSE path
    IN IF file \in DOMAIN fs THEN fs ELSE WriteFile(fs, file, Marshal(cfg))

\* Save: the file system after it
Save(fs, path, cfg) ==
    LET file == IF path = "" THEN defaultConfigPath ELSE path
    IN WriteFile(fs, file, Marshal(cfg))

VARIABLES
    m,            \* the model value the program holds
    quitPending,  \* a tea.Quit command was returned, its QuitMsg is in flight
    tickPending,  \* a spinner.TickMsg is in flight
    running,      \* the event loop has not ended
    confirms,     \* history: the presses of enter that advanced the stage, less the back
                  \* actions that changed it
    args,         \* the arguments of a helper called on its own; << >> in the program
    ret,          \* the values that call returned; << >> before it returns
    anim,         \* the springs and the flags they drive
    smoothPending, \* a tick of the smooth timer is in flight
    files,        \* the file system: the content of every path that exists
    apply         \* the position of a call of Apply, and the error it returned

vars == <<m, quitPending, tickPending, running, confirms, args, ret, anim, smoothPending,
          files, apply>>

Init ==
    /\ \E cfg \in Configs : m = NewWizard(cfg.catalog, cfg.defaultLanguage, cfg.defaultFramework)
    /\ quitPending = FALSE
    /\ tickPending = TRUE
    /\ running = TRUE
    /\ confirms = 0
    /\ args = << >>
    /\ ret = << >>
    /\ anim = NewAnimation
    /\ smoothPending = TRUE
    /\ files = NoFiles
    /\ apply = NotApplying

\* one iteration of the event loop on a message
Loop(msg) ==
    \E r \in {Update(m, msg)} :
       /\ running
       /\ m' = r.m
       /\ quitPending' = (quitPending \/ Quit \in r.cmd)
       /\ tickPending' = IF msg.type = "spinner.TickMsg" THEN Tick \in r.cmd ELSE tickPending
       /\ confirms' = IF IsKey(msg, "enter") /\ r.m.stage # m.stage THEN confirms + 1
                      ELSE IF msg.type = "tea.KeyMsg" /\ msg.key \in BackKeys /\ r.m.stage # m.stage
                           THEN confirms - 1
                           ELSE confirms
       /\ UNCHANGED <<running, args, ret, files, apply>>

\* the same, the springs left alone
Deliver(msg) == Loop(msg) /\ UNCHANGED <<anim, smoothPending>>

\* a key typed into the name input keeps the buffer within the bound
FitsName(k) == m.stage = stageName /\ k \in {"b", " "} => Len(m.name.value) < MaxNameLen

CancelKey == \E k \in CancelKeys : Deliver(KeyMsg(k))

BackKey == \E k \in BackKeys : FitsName(k) /\ Deliver(KeyMsg(k))

EnterKey == Deliver(KeyMsg("enter"))

SpaceKey == FitsName(" ") /\ Deliver(KeyMsg(" "))

MoveKey == \E k \in MoveKeys : Deliver(KeyMsg(k))

Resize == \E size \in Sizes : Deliver(WindowSizeMsg(size[1], size[2]))

SpinnerTick == tickPending /\ m.titleFrame < MaxFrame /\ Deliver(TickMsg)

QuitMsg ==
    /\ running
    /\ quitPending
    /\ running' = FALSE
    /\ UNCHANGED <<m, quitPending, tickPending, confirms, args, ret, anim, smoothPending, files, apply>>

Next ==
    \/ CancelKey
    \/ BackKey
    \/ EnterKey
    \/ SpaceKey
    \/ MoveKey
    \/ Resize
    \/ SpinnerTick
    \/ QuitMsg

Spec == Init /\ [][Next]_vars

(***************************************************************************)
(* A helper called on its own: the arguments are drawn from a bounded set, *)
(* the call stores what the helper returns.  No wizard runs.               *)
(***************************************************************************)
NoProgram ==
    /\ m = NewWizard(CatalogEmpty, EmptyStr, EmptyStr)
    /\ quitPending = FALSE
    /\ tickPending = FALSE
    /\ running = FALSE
    /\ confirms = 0
    /\ anim = NewAnimation
    /\ smoothPending = FALSE

\* spellings handed to uniqueStrings: two that differ in case only, one padded with
\* spaces, one of white space only, the empty one, an unrelated one
SpacedCobra == <<32>> \o Cobra \o <<32>>
Blank == <<32, 9>>
UniqueInputs == {Cobra, cobra, SpacedCobra, Blank, EmptyStr, gin}

\* the slices of at most n entries over S
SlicesOver(S, n) == UNION {[1..len -> S] : len \in 0..n}

InitUnique ==
    /\ NoProgram
    /\ files = NoFiles
    /\ apply = NotApplying
    /\ args \in {<<values>> : values \in SlicesOver(UniqueInputs, MaxValues)}
    /\ ret = << >>

CallUniqueStrings ==
    /\ ret = << >>
    /\ ret' = <<uniqueStrings(args[1])>>
    /\ UNCHANGED <<m, quitPending, tickPending, running, confirms, args, anim, smoothPending,
                   files, apply>>

NextUnique == CallUniqueStrings

SpecUnique == InitUnique /\ [][NextUnique]_vars

(***************************************************************************)
(* The wizard left alone on its first stage while the title animation      *)
(* runs: ticks, resizes and a cancel, no other key.                        *)
(***************************************************************************)
RevealTick == tickPending /\ m.titleFrame < MaxRevealFrame /\ Deliver(TickMsg)

NextReveal ==
    \/ RevealTick
    \/ Resize
    \/ CancelKey
    \/ QuitMsg

SpecReveal == Init /\ [][NextReveal]_vars

(***************************************************************************)
(* The wizard with its springs: every change of stage triggers the         *)
(* transition spring and re-arms the smooth timer, the smooth timer's      *)
(* ticks step the springs.                                                 *)
(***************************************************************************)
Animated(msg) ==
    /\ Loop(msg)
    /\ anim' = IF m'.stage = m.stage THEN anim
               ELSE triggerTransition(anim, m', ~(msg.type = "tea.KeyMsg" /\ msg.key \in BackKeys))
    /\ smoothPending' = (smoothPending \/ m'.stage # m.stage)

SmoothEnter == Animated(KeyMsg("enter"))

\* no key is typed into the name input
SmoothBack == m.stage # stageName /\ \E k \in BackKeys : Animated(KeyMsg(k))

SmoothCancel == \E k \in CancelKeys : Animated(KeyMsg(k))

SmoothResize == \E size \in Sizes : Animated(WindowSizeMsg(size[1], size[2]))

SmoothTick ==
    /\ running
    /\ smoothPending
    /\ anim' = smoothTick(anim).anim
    /\ smoothPending' = smoothTick(anim).again
    /\ UNCHANGED <<m, quitPending, tickPending, running, confirms, args, ret, files, apply>>

NextSmooth ==
    \/ SmoothEnter
    \/ SmoothBack
    \/ SmoothCancel
    \/ SmoothResize
    \/ SmoothTick
    \/ QuitMsg

SpecSmooth == Init /\ [][NextSmooth]_vars

(***************************************************************************)
(* The wizard with its springs, rendered twice in the state it is left in: *)
(* ret collects the outputs of View.                                       *)
(***************************************************************************)
NotRendered == ret = << >>

ViewEnter == NotRendered /\ SmoothEnter

ViewBack == NotRendered /\ SmoothBack

ViewCancel == NotRendered /\ SmoothCancel

ViewResize == NotRendered /\ SmoothResize

ViewTick == NotRendered /\ SmoothTick

ViewQuit == NotRendered /\ QuitMsg

ViewCall ==
    /\ Len(ret) < 2
    /\ ret' = Append(ret, View(m, anim).out)
    /\ m' = View(m, anim).m
    /\ anim' = View(m, anim).anim
    /\ UNCHANGED <<quitPending, tickPending, running, confirms, args, smoothPending, files, apply>>

NextView ==
    \/ ViewEnter
    \/ ViewBack
    \/ ViewCancel
    \/ ViewResize
    \/ ViewTick
    \/ ViewQuit
    \/ ViewCall

SpecView == Init /\ [][NextView]_vars

(***************************************************************************)
(* applyHorizontalOffset called on its own, with the widths renderFrame    *)
(* passes (1 at least).                                                    *)
(***************************************************************************)
OffsetTexts == UNION {[1..len -> {97, 32, 10}] : len \in 0..MaxTextLen}

InitOffset ==
    /\ NoProgram
    /\ files = NoFiles
    /\ apply = NotApplying
    /\ args \in {<<text, offset, maxWidth>> :
                    text \in OffsetTexts, offset \in (-MaxOffset)..MaxOffset,
                    maxWidth \in 1..MaxColumns}
    /\ ret = << >>

CallApplyHorizontalOffset ==
    /\ ret = << >>
    /\ ret' = <<applyHorizontalOffset(args[1], args[2], args[3])>>
    /\ UNCHANGED <<m, quitPending, tickPending, running, confirms, args, anim, smoothPending,
                   files, apply>>

NextOffset == CallApplyHorizontalOffset

SpecOffset == InitOffset /\ [][NextOffset]_vars

(***************************************************************************)
(* Apply called on a plan, with a file system that holds some of the       *)
(* plan's paths or none.  args is <<actions, dryRun, the files before>>.   *)
(***************************************************************************)
Paths == {"main.go", "go.mod", "README.md"}

Action(path, content) == [Path |-> path, Content |-> content]

Plans == UNION {[1..len -> {Action(path, "new") : path \in Paths}] : len \in 0..MaxActions}

FileSystems == UNION {[existing -> {"old"}] : existing \in SUBSET Paths}

InitApply ==
    /\ NoProgram
    /\ anim = NewAnimation
    /\ smoothPending = FALSE
    /\ ret = << >>
    /\ files \in FileSystems
    /\ args \in {<<actions, dryRun, files>> : actions \in Plans, dryRun \in BOOLEAN}
    /\ apply = NotApplying

ApplyCall ==
    /\ apply.pc = "idle"
    /\ apply' = [apply EXCEPT !.pc = "check", !.i = 1]
    /\ UNCHANGED <<m, quitPending, tickPending, running, confirms, args, ret, anim,
                   smoothPending, files>>

ApplyStep ==
    /\ apply.pc \in {"check", "write"}
    /\ \E ok \in BOOLEAN :
          /\ apply' = applyStep(apply, files, args[1], args[2], ok).apply
          /\ files' = applyStep(apply, files, args[1], args[2], ok).files
    /\ UNCHANGED <<m, quitPending, tickPending, running, confirms, args, ret, anim,
                   smoothPending>>

NextApply ==
    \/ ApplyCall
    \/ ApplyStep

SpecApply == InitApply /\ [][NextApply]_vars

(***************************************************************************)
(* The configuration store used on its own: args is <<path, cfg>> of the   *)
(* last Save, ret is <<path, what Load returned>> of the Load after it.    *)
(***************************************************************************)
Tmp == <<47, 116, 109, 112>>

ConfigValues ==
    {Config(language, framework, dir) :
        language \in {EmptyStr, Py}, framework \in {EmptyStr, Api}, dir \in {EmptyStr, Tmp}}

ConfigPaths == {"", "config.json"}

InitConfig ==
    /\ NoProgram
    /\ anim = NewAnimation
    /\ smoothPending = FALSE
    /\ files = NoFiles
    /\ apply = NotApplying
    /\ args = << >>
    /\ ret = << >>

CallSave ==
    \E path \in ConfigPaths, cfg \in ConfigValues :
       /\ files' = Save(files, path, cfg)
       /\ args' = <<path, cfg>>
       /\ ret' = << >>
       /\ UNCHANGED <<m, quitPending, tickPending, running, confirms, anim, smoothPending, apply>>

CallLoad ==
    \E path \in ConfigPaths :
       /\ ret' = <<path, Load(files, path)>>
       /\ UNCHANGED <<m, quitPending, tickPending, running, confirms, args, anim,
                      smoothPending, files, apply>>

NextConfig ==
    \/ CallSave
    \/ CallLoad

SpecConfig == InitConfig /\ [][NextConfig]_vars

(***************************************************************************)
(* Properties of the stage machine.                                        *)
(***************************************************************************)
Stages == {stageLanguage, stageFramework, stageLibraries, stageName, stageConfirm, stageDone}

\* the catalog lists at least one library with a non-blank name for the pair in the result
HasLibraryOptions(mm) ==
    LET listed == MapGet(mm.libOptions, LibKey(mm.result.Language, mm.result.Framework))
    IN \E i \in 1..Len(listed) : TrimSpace(listed[i]) # EmptyStr

StageOrder(withLibraries) ==
    IF withLibraries
    THEN <<stageLanguage, stageFramework, stageLibraries, stageName, stageConfirm, stageDone>>
    ELSE <<stageLanguage, stageFramework, stageName, stageConfirm, stageDone>>

\* the items of a list and its highlighted index, without its size
ListSelection(l) == <<l.items, l.index>>

\* the names whose entry in selectedLibs is true
SelectedNames(mm) == {name \in DOMAIN mm.selectedLibs : mm.selectedLibs[name]}

\* the elements of a sequence
Elements(seq) == {seq[i] : i \in 1..Len(seq)}

\* the library names the Libraries list of the pair in the result shows, in its order
LibraryNames(mm) ==
    sortStrings(uniqueStrings(MapGet(mm.libOptions, LibKey(mm.result.Language, mm.result.Framework))))

\* C1: the stage is always one of the six stages, and when enter has advanced the stage
\* N times from stage Language (N times more than a back action has changed it, so N
\* times in a row when no back action was taken) the stage is entry N of Language,
\* Framework, Libraries, Name, Confirm, Done, where Libraries is left out exactly when
\* the catalog has no library for the chosen pair.
C1_StageOrder ==
    /\ m.stage \in Stages
    /\ confirms >= 0
    /\ LET order == StageOrder(HasLibraryOptions(m))
       IN confirms + 1 <= Len(order) /\ m.stage = order[confirms + 1]

\* four confirms in a row ended in Done: the Libraries stage was left out
C1_Witness == confirms = 4 /\ m.stage = stageDone /\ ~HasLibraryOptions(m)

\* C2: enter in stage Framework with an item highlighted leads to Libraries if the
\* catalog has a library for the chosen pair, and to Name otherwise.
C2_FrameworkConfirm ==
    [][m.stage = stageFramework /\ HasSelectedItem(m.framework) /\ EnterKey =>
          /\ m'.result.Framework = SelectedItem(m.framework)
          /\ m'.stage = IF HasLibraryOptions(m') THEN stageLibraries ELSE stageName
          /\ (m'.stage = stageLibraries <=> Len(m'.libraries.items) > 0)]_vars

\* Framework was confirmed for a pair without libraries and the stage is Name
C2_Witness ==
    /\ confirms = 2
    /\ m.stage = stageName
    /\ ~HasLibraryOptions(m)
    /\ Len(m.libraries.items) = 0

\* C3 as stated: in stage Name, reached with an empty library list, a back key changes
\* the stage to Framework.
C3_Original ==
    [][m.stage = stageName /\ Len(m.libraries.items) = 0 /\ BackKey =>
          m'.stage = stageFramework]_vars

\* C3 amended: in stage Name, reached with an empty library list, a back key is handed
\* to the name input and the stage stays Name; the stage back() gives for that state is
\* Framework, not Libraries, but Update does not call back() in stage Name.
C3_BackKeyInName ==
    [][m.stage = stageName /\ Len(m.libraries.items) = 0 /\ BackKey =>
          /\ m'.stage = stageName
          /\ \E k \in BackKeys : m'.name = NameUpdate(m.name, KeyMsg(k))
          /\ back(m).stage = stageFramework]_vars

\* the key b was processed in stage Name of a pair without libraries: it is in the buffer
C3_Witness ==
    /\ m.stage = stageName
    /\ Len(m.libraries.items) = 0
    /\ m.name.value = <<98>>

\* C4: a back key processed in stage Language or in stage Name leaves the stage unchanged.
C4_BackDisabled ==
    [][m.stage \in {stageLanguage, stageName} /\ BackKey => m'.stage = m.stage]_vars

\* back keys were processed in stage Name after the Libraries stage
C4_Witness ==
    /\ m.stage = stageName
    /\ Len(m.libraries.items) > 0
    /\ m.name.value = <<98, 98>>
    /\ m.name.pos = 1

\* C5: a back key moves Framework to Language, Libraries to Framework and Confirm to
\* Name; it never moves the stage forward and never back by more than one stage.
C5_BackOneStep ==
    [][BackKey =>
          /\ m.stage = stageFramework => m'.stage = stageLanguage
          /\ m.stage = stageLibraries => m'.stage = stageFramework
          /\ m.stage = stageConfirm => m'.stage = stageName
          /\ m'.stage <= m.stage
          /\ m.stage - m'.stage <= 1]_vars

\* a back key left Libraries for Framework: the library list of the pair is built
C5_Witness ==
    /\ confirms = 1
    /\ m.stage = stageFramework
    /\ Len(m.libraries.items) > 0
    /\ HasLibraryOptions(m)

\* C6 as stated: enter in stage Name on an empty or blank buffer keeps the stage, sets
\* the inline name error, sets no run error and issues no quit.
C6_Original ==
    [][m.stage = stageName /\ TrimSpace(m.name.value) = EmptyStr /\ EnterKey =>
          /\ m'.stage = stageName
          /\ m'.nameErr # EmptyStr
          /\ m'.err = m.err
          /\ quitPending' = quitPending]_vars

\* C7 as stated: enter in stage Name on a buffer that is not blank moves to Confirm,
\* stores the trimmed buffer as the name and leaves no name error behind, also when
\* an earlier attempt failed.
C7_Original ==
    [][m.stage = stageName /\ TrimSpace(m.name.value) # EmptyStr /\ EnterKey =>
          /\ m'.stage = stageConfirm
          /\ m'.result.Name = TrimSpace(m.name.value)
          /\ m'.nameErr = EmptyStr
          /\ m'.err # ErrNameRequired]_vars

\* C8: a cancel key sets the error "cancelled" and requests quit in every stage, and
\* once an error is set ResultFromModel returns an error and the empty result.
C8_Cancel ==
    [][/\ CancelKey => m'.err = ErrCancelled /\ quitPending'
       /\ m.err # ErrNil =>
             /\ ResultFromModel(m').err # ErrNil
             /\ ResultFromModel(m').result.Language = EmptyStr
             /\ ResultFromModel(m').result.Framework = EmptyStr
             /\ ResultFromModel(m').result.Name = EmptyStr
             /\ ResultFromModel(m').result.Libraries = << >>]_vars

\* the run was cancelled on the Confirm stage, with every selection made
C8_Witness ==
    /\ m.err = ErrCancelled
    /\ quitPending
    /\ m.stage = stageConfirm
    /\ m.result.Name # EmptyStr
    /\ ResultFromModel(m).err = ErrCancelled

\* C9 as stated: once the run is cancelled no message changes the stage, the items or
\* the highlighted index of a list, selectedLibs, the result, the name buffer or
\* titleFrame.
C9_Original ==
    [][m.err = ErrCancelled =>
          /\ m'.stage = m.stage
          /\ ListSelection(m'.languages) = ListSelection(m.languages)
          /\ ListSelection(m'.framework) = ListSelection(m.framework)
          /\ ListSelection(m'.libraries) = ListSelection(m.libraries)
          /\ m'.selectedLibs = m.selectedLibs
          /\ m'.result = m.result
          /\ m'.name.value = m.name.value
          /\ m'.titleFrame = m.titleFrame]_vars

\* C10: in stage Libraries a toggle followed at once by a second toggle leaves the set
\* of selected names as it was; the label of the highlighted item differs after the
\* first toggle and is the original one after the second.
C10_ToggleTwice ==
    [][m.stage = stageLibraries /\ SpaceKey =>
          LET twice == Update(m', KeyMsg(" ")).m
          IN /\ SelectedNames(m') # SelectedNames(m)
             /\ SelectedNames(twice) = SelectedNames(m)
             /\ SelectedItem(m'.libraries) # SelectedItem(m.libraries)
             /\ SelectedItem(twice.libraries) = SelectedItem(m.libraries)
             /\ twice.stage = stageLibraries]_vars

\* a library was toggled on and off again: its entry is false and its box is empty
C10_Witness ==
    /\ m.stage = stageLibraries
    /\ \E name \in DOMAIN m.selectedLibs :
          /\ ~m.selectedLibs[name]
          /\ SelectedItem(m.libraries) = UncheckedPrefix \o name

\* C11: a toggle in stage Libraries flips the membership of the name of the highlighted
\* item and of no other name, keeps the highlighted index and leaves the stage at
\* Libraries.
C11_ToggleFrame ==
    [][m.stage = stageLibraries /\ SpaceKey =>
          LET name == LibraryNames(m)[m.libraries.index + 1]
          IN /\ IsSelected(m'.selectedLibs, name) # IsSelected(m.selectedLibs, name)
             /\ \A other \in (DOMAIN m.selectedLibs \cup DOMAIN m'.selectedLibs) \ {name} :
                    IsSelected(m'.selectedLibs, other) = IsSelected(m.selectedLibs, other)
             /\ m'.libraries.index = m.libraries.index
             /\ m'.stage = stageLibraries]_vars

\* the second item of the list was toggled on while the first one stays selected
C11_Witness ==
    /\ m.stage = stageLibraries
    /\ m.libraries.index = 1
    /\ m.libraries.items = <<CheckedPrefix \o gin, CheckedPrefix \o Gorm>>
    /\ SelectedNames(m) = {gin, Gorm}

\* C12: enter in stage Framework leaves no library name selected and every box of the
\* rebuilt Libraries list empty; in the stages after Framework every selected name is a
\* library of the pair in the result, so no selection made for another pair is kept.
C12_FrameworkResets ==
    /\ [][m.stage = stageFramework /\ EnterKey =>
             /\ SelectedNames(m') = {}
             /\ m'.selectedLibs = << >>
             /\ m'.libraries.items =
                    [i \in 1..Len(LibraryNames(m')) |-> UncheckedPrefix \o LibraryNames(m')[i]]]_vars
    /\ [](m.stage > stageFramework =>
             \A name \in SelectedNames(m) : name \in Elements(LibraryNames(m)))

\* a library is selected for one framework and another framework of the language is
\* highlighted in stage Framework: the confirm of that state empties the selection
C12_Witness ==
    /\ m.stage = stageFramework
    /\ m.result.Framework = Cobra
    /\ SelectedNames(m) = {gin}
    /\ SelectedItem(m.framework) = Vanilla
    /\ Update(m, KeyMsg("enter")).m.result.Framework = Vanilla
    /\ Update(m, KeyMsg("enter")).m.selectedLibs = << >>

\* C13: enter in stage Language or Framework while the list of the stage has no
\* highlighted item sets the error of the stage and requests quit, keeps the stage and
\* the result, and ResultFromModel returns that error.  The Framework list of a run is
\* never empty, so for stage Framework the handler is applied to the state with its
\* Framework list emptied.
C13_FatalEmptyList ==
    [][/\ m.stage = stageLanguage /\ ~HasSelectedItem(m.languages) /\ EnterKey =>
             /\ m'.err = ErrNoLanguage
             /\ quitPending'
             /\ m'.stage = stageLanguage
             /\ m'.result = m.result
             /\ ResultFromModel(m').err = ErrNoLanguage
       /\ LET emptied == [m EXCEPT !.stage = stageFramework, !.framework = NewList(<< >>)]
               r == Update(emptied, KeyMsg("enter"))
           IN /\ r.m.err = ErrNoFramework
              /\ Quit \in r.cmd
              /\ r.m.stage = stageFramework
              /\ r.m.result = m.result
              /\ r.m.selectedLibs = m.selectedLibs
              /\ ResultFromModel(r.m).err = ErrNoFramework]_vars

\* enter was pressed on the empty Language list and the run has ended with its error
C13_Witness ==
    /\ m.stage = stageLanguage
    /\ Len(m.languages.items) = 0
    /\ m.err = ErrNoLanguage
    /\ ~running
    /\ ResultFromModel(m).err = ErrNoLanguage
    /\ m.result.Language = EmptyStr

\* the model with every layout dimension set to zero: the terminal size, the panel
\* size, the size of each list and the width of the name input
WithoutLayout(mm) ==
    [mm EXCEPT !.width = 0, !.height = 0, !.panelW = 0, !.panelH = 0,
               !.languages = SetSize(@, 0, 0),
               !.framework = SetSize(@, 0, 0),
               !.libraries = SetSize(@, 0, 0),
               !.name.Width = 0]

\* C14: a resize event changes layout dimensions only: the stage, the items and the
\* highlighted index of every list, selectedLibs, the result, the name buffer and its
\* cursor, the error and titleFrame are as before, in every stage.  (A resize event
\* that reports the size the model already has changes nothing at all.)
C14_ResizeFrame ==
    [][(m'.width # m.width \/ m'.height # m.height) /\ Resize =>
          /\ WithoutLayout(m') = WithoutLayout(m)
          /\ m'.stage = m.stage
          /\ ListSelection(m'.languages) = ListSelection(m.languages)
          /\ ListSelection(m'.framework) = ListSelection(m.framework)
          /\ ListSelection(m'.libraries) = ListSelection(m.libraries)
          /\ m'.selectedLibs = m.selectedLibs
          /\ m'.result = m.result
          /\ m'.name.value = m.name.value
          /\ m'.titleFrame = m.titleFrame]_vars

\* the terminal was resized below the smallest panel in stage Libraries, after a tick,
\* with the second library highlighted and selected
C14_Witness ==
    /\ m.stage = stageLibraries
    /\ m.width = 40
    /\ m.panelW = 64
    /\ m.libraries.width = 56
    /\ m.libraries.index = 1
    /\ SelectedNames(m) = {Gorm}
    /\ m.titleFrame = 1

\* terminal sizes for the resize checks: no size at all, smaller than the smallest
\* panel, the usual one, larger than the largest list
ResizeInputs == {<<0, 0>>, <<40, 10>>, <<96, 36>>, <<200, 60>>}

\* C15: processing the same resize event twice in a row gives the state that processing
\* it once gives, for every width and height, in every state of the wizard.
C15_ResizeIdempotent ==
    \A size \in ResizeInputs :
        LET msg == WindowSizeMsg(size[1], size[2])
            once == Update(m, msg)
            twice == Update(once.m, msg)
        IN /\ twice.m = once.m
           /\ twice.cmd = once.cmd

\* a resize to the small terminal was processed twice in a row in stage Name
C15_Witness ==
    /\ m.stage = stageName
    /\ m.width = 40 /\ m.height = 10
    /\ m.panelH = 28
    /\ m.name.Width = 50
    /\ m = Update(m, WindowSizeMsg(40, 10)).m

\* no entry of the sequence is below an earlier one when both are lower-cased
IsSortedFold(seq) ==
    \A i, j \in 1..Len(seq) : i < j => ~StrLess(ToLower(seq[j]), ToLower(seq[i]))

\* the orders in which one `range` over a map may visit the keys in S
Orders(S) ==
    {visit \in [1..Cardinality(S) -> S] : \A i, j \in 1..Cardinality(S) : visit[i] = visit[j] => i = j}

\* C16: when enter in stage Name advances to Confirm, result.Libraries holds exactly the
\* names whose entry in selectedLibs is true (a name toggled off is left out), each
\* once, in ascending order of their lower-cased spelling, whatever the order in which
\* the map is visited.
C16_FrozenLibraries ==
    [][m.stage = stageName /\ TrimSpace(m.name.value) # EmptyStr /\ EnterKey =>
          /\ m'.stage = stageConfirm
          /\ Elements(m'.result.Libraries) = SelectedNames(m)
          /\ Len(m'.result.Libraries) = Cardinality(SelectedNames(m))
          /\ IsSortedFold(m'.result.Libraries)
          /\ \A visit \in Orders(SelectedNames(m)) : sortStrings(visit) = m'.result.Libraries]_vars

\* Name was confirmed with both libraries selected: gin is listed before Gorm, which
\* the order of the code points would put first
C16_Witness ==
    /\ m.stage = stageConfirm
    /\ SelectedNames(m) = {gin, Gorm}
    /\ m.result.Libraries = <<gin, Gorm>>
    /\ StrLess(Gorm, gin)

\* C17: a back key in stage Confirm keeps the library selection and the libraries of
\* the result, and when Name, entered again from Confirm, is confirmed again the
\* libraries of the result are the ones the first confirm stored.
C17_BackKeepsLibraries ==
    [][/\ m.stage = stageConfirm /\ BackKey =>
             /\ m'.stage = stageName
             /\ m'.selectedLibs = m.selectedLibs
             /\ m'.result.Libraries = m.result.Libraries
       /\ m.stage = stageName /\ m.result.Name # EmptyStr /\ EnterKey /\ m'.stage = stageConfirm =>
             m'.result.Libraries = m.result.Libraries]_vars

\* Name was confirmed with a library selected and entered again from Confirm: the
\* second confirm stores the same libraries
C17_Witness ==
    /\ m.stage = stageName
    /\ m.result.Name # EmptyStr
    /\ m.result.Libraries = <<gin>>
    /\ Update(m, KeyMsg("enter")).m.stage = stageConfirm
    /\ Update(m, KeyMsg("enter")).m.result.Libraries = <<gin>>

\* the fields of the result a stage and the stages after it write
WrittenFrom(stage) ==
    IF stage = stageLanguage THEN {"Language", "Framework", "Name", "Libraries"}
    ELSE IF stage \in {stageFramework, stageLibraries} THEN {"Framework", "Name", "Libraries"}
    ELSE IF stage = stageName THEN {"Name", "Libraries"}
    ELSE {}

\* C18 as stated: when a back key enters a stage, every field of the result written by
\* that stage or by a later stage is empty afterwards.
C18_Original ==
    [][BackKey /\ m'.stage # m.stage =>
          \A field \in WrittenFrom(m'.stage) : Len(m'.result[field]) = 0]_vars

\* C18 amended: a back key that changes the stage changes nothing but the stage: every
\* field of the result, also the ones written by the stage entered and by later
\* stages, keeps its value, and so do the lists, the selection and the name buffer.
C18_BackKeepsResult ==
    [][BackKey /\ m'.stage # m.stage =>
          /\ m'.result = m.result
          /\ m' = [m EXCEPT !.stage = m'.stage]]_vars

\* back keys led from Libraries to Language: the language and the framework confirmed
\* before are still in the result, and the library is still selected
C18_Witness ==
    /\ m.stage = stageLanguage
    /\ m.result.Language = Go
    /\ m.result.Framework = Cobra
    /\ SelectedNames(m) = {Gorm}
    /\ m.err = ErrNil

\* the frameworks the catalog of the run lists for a language, in the order of the catalog
CatalogFrameworks(mm, language) ==
    LET cfg == CHOOSE c \in Configs :
                   /\ NewWizard(c.catalog, c.defaultLanguage, c.defaultFramework).options = mm.options
                   /\ NewWizard(c.catalog, c.defaultLanguage, c.defaultFramework).libOptions = mm.libOptions
    IN frameworksOf(cfg.catalog, language)

\* C19: when enter in stage Language confirms language L, the Framework list holds, for
\* each framework the catalog lists for L, exactly one label equal to it ignoring case,
\* spelled as its first occurrence in the catalog; a label the catalog does not list is
\* the Vanilla entry NewWizard adds; the labels are in strictly ascending order of
\* their lower-cased spelling, so no two are equal ignoring case.
C19_FrameworkList ==
    [][m.stage = stageLanguage /\ HasSelectedItem(m.languages) /\ EnterKey =>
          LET listed == CatalogFrameworks(m, SelectedItem(m.languages))
              items == m'.framework.items
              Occurrences(label) == {k \in 1..Len(listed) : EqualFold(listed[k], label)}
          IN /\ m'.stage = stageFramework
             /\ \A k \in 1..Len(listed) :
                    Cardinality({j \in 1..Len(items) : EqualFold(items[j], listed[k])}) = 1
             /\ \A j \in 1..Len(items) :
                    IF Occurrences(items[j]) = {} THEN items[j] = Vanilla
                    ELSE items[j] = listed[CHOOSE k \in Occurrences(items[j]) :
                                              \A other \in Occurrences(items[j]) : k <= other]
             /\ \A i, j \in 1..Len(items) :
                    i < j => StrLess(ToLower(items[i]), ToLower(items[j]))]_vars

\* the catalog lists Cobra for Go in two spellings: the Framework list shows the first
C19_Witness ==
    /\ m.stage = stageFramework
    /\ m.result.Language = Go
    /\ CatalogFrameworks(m, Go) = <<Cobra, Vanilla, cobra>>
    /\ m.framework.items = <<Cobra, Vanilla>>

\* the key uniqueStrings compares: the value without surrounding white space, lower-cased
UniqueKey(value) == ToLower(TrimSpace(value))

\* the positions of a slice that hold the first occurrence of a key that is not empty
FirstOccurrences(values) ==
    {i \in 1..Len(values) :
        /\ UniqueKey(values[i]) # EmptyStr
        /\ \A j \in 1..(i - 1) : UniqueKey(values[j]) # UniqueKey(values[i])}

\* C20: what uniqueStrings returns is a subsequence of its input in the original order
\* that holds, with its original spelling, exactly the first occurrence of every key
\* that is not empty, and no two entries with the same key.
C20_UniqueStrings ==
    Len(ret) = 1 =>
        LET values == args[1]
            out == ret[1]
        IN /\ Len(out) = Cardinality(FirstOccurrences(values))
           /\ \E at \in [1..Len(out) -> 1..Len(values)] :
                  /\ \A k \in 1..Len(out) : at[k] \in FirstOccurrences(values) /\ out[k] = values[at[k]]
                  /\ \A k, l \in 1..Len(out) : k < l => at[k] < at[l]
           /\ \A k \in 1..Len(out) : UniqueKey(out[k]) # EmptyStr
           /\ \A k, l \in 1..Len(out) : UniqueKey(out[k]) = UniqueKey(out[l]) => k = l

\* the padded spelling came first, a blank entry and the two other spellings followed:
\* only the padded spelling is returned, with its padding
C20_Witness ==
    /\ args = <<(<<SpacedCobra, Blank, cobra>>)>>
    /\ ret = <<(<<SpacedCobra>>)>>

\* C21: when enter in stage Language confirms a language, the Framework list highlights
\* the item equal, ignoring case, to the framework stored in the result before (the
\* default framework, or the one confirmed before a back navigation) when there is
\* one, and its first item otherwise; the index is within the list.
C21_DefaultHighlight ==
    [][m.stage = stageLanguage /\ HasSelectedItem(m.languages) /\ EnterKey =>
          LET prior == m.result.Framework
              items == m'.framework.items
              index == m'.framework.index
              matches == {i \in 0..(Len(items) - 1) : EqualFold(items[i + 1], prior)}
          IN /\ 0 <= index /\ index < Len(items)
             /\ matches # {} => index \in matches /\ \A i \in matches : index <= i
             /\ matches = {} => index = 0]_vars

\* no default framework was given, so the result held Vanilla when Go was confirmed:
\* Vanilla, the second item of the Framework list, is highlighted
C21_Witness ==
    /\ m.stage = stageFramework
    /\ confirms = 1
    /\ m.result.Language = Go
    /\ m.result.Framework = Vanilla
    /\ m.framework.items = <<Cobra, Vanilla>>
    /\ m.framework.index = 1

\* C22: the columns revealed at the current frame never exceed the width of the art,
\* which is 46, are not fewer than at the frame before, and are the whole width at
\* every frame from revealTotalTicks on (and fewer before it).
C22_RevealProgress ==
    LET frame == m.titleFrame
    IN /\ artWidth = 46
       /\ revealedCols(frame) <= artWidth
       /\ frame > 0 => revealedCols(frame - 1) <= revealedCols(frame)
       /\ frame >= revealTotalTicks => revealedCols(frame) = artWidth
       /\ frame < revealTotalTicks => revealedCols(frame) = 3 * frame /\ revealedCols(frame) < artWidth

\* the frame at which the last column of the art appears: one frame before it, 45
\* columns were revealed
C22_Witness ==
    /\ m.titleFrame = 16
    /\ m.titleFrame = revealTotalTicks
    /\ revealedCols(m.titleFrame - 1) = 45
    /\ revealedCols(m.titleFrame) = 46

\* the ticks after which the timer is to stop: the ticks of the reveal and two
\* traversals of the border by the spark
TickBudget(mm) == revealTotalTicks + 2 * (contentWidth(mm) + 2)

\* C23 as stated: a tick processed when the art is fully revealed and the tick budget
\* is exceeded schedules no successor tick.
C23_Original ==
    [][/\ m'.titleFrame = m.titleFrame + 1
       /\ revealedCols(m'.titleFrame) = artWidth
       /\ m'.titleFrame > TickBudget(m')
       => ~tickPending']_vars

\* C24: titleFrame never decreases: a step that changes it is the processing of a tick
\* and adds exactly 1, every tick processed adds exactly 1, and no key and no resize
\* changes it.
C24_TitleFrame ==
    [][/\ m'.titleFrame >= m.titleFrame
       /\ m'.titleFrame # m.titleFrame => m'.titleFrame = m.titleFrame + 1 /\ SpinnerTick
       /\ tickPending /\ SpinnerTick => m'.titleFrame = m.titleFrame + 1
       /\ m'.stage # m.stage \/ m'.width # m.width \/ m'.name # m.name \/ m'.err # m.err
             => m'.titleFrame = m.titleFrame]_vars

\* a tick was processed, and keys and a resize before or after it, up to stage Confirm
C24_Witness ==
    /\ m.titleFrame = 1
    /\ m.stage = stageConfirm
    /\ m.width = 96
    /\ tickPending

(***************************************************************************)
(* Properties of the springs.                                              *)
(***************************************************************************)
EntranceSettled == settled(anim.panelScale, anim.panelVel, Unit, entranceEps)

TransitionSettled == settled(anim.transOffset, anim.transVel, 0, transitionEps)

\* C25: a step that changes the stage leaves a transition active with velocity 0 and
\* the offset at the panel's content width, positive when the stage moved forward and
\* negative when it moved backward, whatever offset and velocity were under way; the
\* width is 6 less than the panel's, and 82 while the panel has no width yet.
C25_TriggerTransition ==
    [][m'.stage # m.stage =>
          LET W == IF m.panelW = 0 THEN 82 ELSE m.panelW - 6
          IN /\ W > 0
             /\ anim'.transActive
             /\ anim'.transVel = 0
             /\ m'.stage > m.stage => anim'.transOffset = W * PixelUnit
             /\ m'.stage < m.stage => anim'.transOffset = -(W * PixelUnit)]_vars

\* back to Language two smooth ticks after the start: the forward transition of the
\* enter before it was still under way when the backward one replaced it
C25_Witness ==
    /\ m.stage = stageLanguage
    /\ m.panelW = 64
    /\ anim.panelScale = 8000
    /\ anim.transActive
    /\ anim.transTicks = 0
    /\ anim.transVel = 0
    /\ anim.transOffset = -(58 * PixelUnit)

\* C26: a transition is no longer active after 12 smooth ticks; whenever none is
\* active the offset is within epsilon of 0 and the velocity below epsilon, and a
\* step that does not change the stage leaves it so.
C26_TransitionSettles ==
    /\ [](anim.transActive => anim.transTicks < 12)
    /\ [](~anim.transActive => TransitionSettled)
    /\ [][~anim.transActive /\ m'.stage = m.stage =>
             /\ ~anim'.transActive
             /\ absF(anim'.transOffset) < transitionEps
             /\ absF(anim'.transVel) < transitionEps]_vars

\* a forward transition of 82 columns settled by its twelfth tick, and the timer
\* stopped after the ticks that followed
C26_Witness ==
    /\ m.stage = stageFramework
    /\ m.panelW # 64
    /\ ~anim.transActive
    /\ anim.transTicks = 12
    /\ TransitionSettled
    /\ ~smoothPending

\* C27: a smooth tick leaves a successor pending exactly when one of the springs is
\* not settled after the step; no tick is pending while both are settled; every
\* change of stage leaves a tick pending.
C27_SmoothTimer ==
    /\ [][smoothPending /\ SmoothTick =>
             (smoothPending' <=>
                 ~(/\ settled(anim'.panelScale, anim'.panelVel, Unit, entranceEps)
                   /\ settled(anim'.transOffset, anim'.transVel, 0, transitionEps)))]_vars
    /\ [](EntranceSettled /\ TransitionSettled => ~smoothPending)
    /\ [][m'.stage # m.stage => smoothPending']_vars

\* the timer had stopped with the panel ready, and the back key re-armed it
C27_Witness ==
    /\ m.stage = stageLanguage
    /\ anim.panelReady
    /\ anim.transActive
    /\ anim.transOffset < 0
    /\ anim.transTicks = 0
    /\ smoothPending

\* C28: panelReady is false at start, true only while the entrance spring is settled
\* at 1, set by no step but a smooth tick, and once true true after every step.
C28_PanelReady ==
    /\ ~anim.panelReady
    /\ [](anim.panelReady => EntranceSettled)
    /\ [][~anim.panelReady /\ anim'.panelReady => smoothPending /\ SmoothTick]_vars
    /\ [][anim.panelReady => anim'.panelReady]_vars

\* the panel is ready, and after it a resize, a change of stage and a tick of the new
\* transition were processed
C28_Witness ==
    /\ anim.panelReady
    /\ m.width = 40
    /\ m.stage = stageFramework
    /\ anim.transActive
    /\ anim.transTicks = 1

\* C29 as stated: every step of the entrance spring from rest leaves the position no
\* farther from 1 than before and not beyond 1.
C29_Original ==
    [][anim'.panelScale # anim.panelScale =>
          /\ anim'.panelScale <= Unit
          /\ absF(Unit - anim'.panelScale) <= absF(Unit - anim.panelScale)]_vars

\* C29 as amended: the positions of the entrance spring stepped from rest stay
\* between 0 and 2, a step of the spring not yet settled moves it, and a further step
\* from the state the settled spring holds returns the same position and velocity.
C29_EntranceBounded ==
    /\ anim.panelScale = 0 /\ anim.panelVel = 0
    /\ [](0 <= anim.panelScale /\ anim.panelScale <= 2 * Unit)
    /\ [](anim.panelReady =>
            springUpdate(entranceSpring, anim.panelScale, anim.panelVel, Unit)
               = <<anim.panelScale, anim.panelVel>>)
    /\ [][anim'.panelScale # anim.panelScale =>
             \/ <<anim'.panelScale, anim'.panelVel>>
                   = springUpdate(entranceSpring, anim.panelScale, anim.panelVel, Unit)
             \/ /\ anim'.panelReady
                /\ <<anim'.panelScale, anim'.panelVel>> = <<Unit, 0>>]_vars

\* the settle bounce: the position beyond 1 and moving back, before the spring settles
C29_Witness ==
    /\ ~anim.panelReady
    /\ anim.panelScale > Unit
    /\ anim.panelVel < 0
    /\ smoothPending

C32_Original ==
    ret # << >> =>
        LET text == args[1]
            offset == args[2]
            maxWidth == args[3]
            lines == Split(text)
            out == Split(ret[1])
        IN /\ offset = 0 => ret[1] = text
           /\ offset # 0 =>
                 /\ Len(out) = Len(lines)
                 /\ \A i \in 1..Len(lines) :
                       /\ offset > 0 =>
                             LET padded == Repeat(offset) \o lines[i]
                                 kept == IF Len(padded) < maxWidth THEN Len(padded) ELSE maxWidth
                             IN out[i] = SubSeq(padded, 1, kept)
                       /\ offset < 0 =>
                             /\ Len(out[i]) >= maxWidth
                             /\ \A j \in 1..Len(out[i]) :
                                   out[i][j] = IF j - offset <= Len(lines[i])
                                               THEN lines[i][j - offset] ELSE 32
                       /\ Len(out[i]) <= maxWidth

\* the catalog the wizard was built from
CatalogOf(mm) ==
    (CHOOSE c \in Configs :
        /\ NewWizard(c.catalog, c.defaultLanguage, c.defaultFramework).options = mm.options
        /\ NewWizard(c.catalog, c.defaultLanguage, c.defaultFramework).libOptions = mm.libOptions).catalog

\* C33 as stated: when the wizard has ended cancelled, Run produces no request and
\* exits with a status other than 0, and that status is not the status of a run ended
\* by an empty project name, of a flag-parsing error or of a configuration error.
C33_Original ==
    ~running /\ m.err = ErrCancelled =>
        LET cancelled == Run(ErrNil, ErrNil, m, CatalogOf(m))
            invalid == Run(ErrNil, ErrNil, [m EXCEPT !.err = ErrNameRequired], CatalogOf(m))
        IN /\ cancelled.request = << >>
           /\ cancelled.status # 0
           /\ cancelled.status # invalid.status
           /\ cancelled.status # Run(ErrFlags, ErrNil, m, CatalogOf(m)).status
           /\ cancelled.status # Run(ErrNil, ErrConfig, m, CatalogOf(m)).status

C36_Original ==
    /\ m.stage = stageLanguage
    /\ [](~running /\ ResultFromModel(m).err = ErrNil =>
             m.stage = stageDone /\ ResultFromModel(m).result = m.result)
    /\ [][m'.stage # m.stage /\ m'.stage = stageDone => m.stage = stageConfirm /\ EnterKey]_vars
    /\ [][m'.stage > m.stage =>
             /\ EnterKey
             /\ m'.stage = stageConfirm => m.stage = stageName
             /\ m'.stage = stageName => m.stage \in {stageFramework, stageLibraries}
             /\ m'.stage = stageLibraries => m.stage = stageFramework
             /\ m'.stage = stageFramework => m.stage = stageLanguage]_vars
    /\ [][quitPending' /\ ~quitPending =>
             \/ m'.stage = stageDone
             \/ CancelKey /\ m'.err = ErrCancelled
             \/ m'.err \in {ErrNoLanguage, ErrNoFramework}]_vars

\* C37: whenever the stage is Confirm or Done, the framework in the result is an item
\* of the Framework list built for the language in the result, every library in the
\* result is a library the catalog lists for the pair in the result, and the name in
\* the result is not empty and has no blank at either end.
C37_ResultConsistent ==
    m.stage \in {stageConfirm, stageDone} =>
       /\ m.result.Framework \in
             Elements(buildFrameworkList(m.result.Language, m.options, m.result.Framework).items)
       /\ \A i \in 1..Len(m.result.Libraries) :
             m.result.Libraries[i] \in
                Elements(MapGet(m.libOptions, LibKey(m.result.Language, m.result.Framework)))
       /\ m.result.Name # EmptyStr
       /\ TrimSpace(m.result.Name) = m.result.Name

\* stage Confirm with a library selected and another one toggled on and off again, and
\* a name typed with a blank in front
C37_Witness ==
    /\ m.stage = stageConfirm
    /\ m.result.Language = Go
    /\ m.result.Framework = Cobra
    /\ m.result.Libraries = <<gin>>
    /\ Gorm \in DOMAIN m.selectedLibs
    /\ m.name.value = <<32, 98>>
    /\ m.result.Name = <<98>>

\* C38: whenever the stage is Libraries the Libraries list has at least one item and
\* its highlighted index is the index of one of them, and a toggle in that stage
\* changes the selection of the highlighted item.
C38_LibrariesNotEmpty ==
    /\ [](m.stage = stageLibraries =>
             /\ Len(m.libraries.items) > 0
             /\ m.libraries.index \in 0..(Len(m.libraries.items) - 1)
             /\ HasSelectedItem(m.libraries))
    /\ [][m.stage = stageLibraries /\ SpaceKey =>
             /\ m'.selectedLibs # m.selectedLibs
             /\ m'.libraries.items # m.libraries.items]_vars

\* stage Libraries with the last of the two items highlighted and selected, after a
\* resize
C38_Witness ==
    /\ m.stage = stageLibraries
    /\ Len(m.libraries.items) = 2
    /\ m.libraries.index = 1
    /\ SelectedNames(m) = {Gorm}
    /\ m.width = 40

\* C39 as stated: when the wizard has ended with a result and no error, Plan does not
\* reject the request built from the result with "no template for", whether the
\* framework is one the catalog lists or the Vanilla entry NewWizard or
\* buildFrameworkList added.
C39_Original ==
    ~running /\ ResultFromModel(m).err = ErrNil =>
        LET run == Run(ErrNil, ErrNil, m, CatalogOf(m))
        IN /\ run.request # << >>
           /\ findOption(CatalogOf(m), run.request[1].Language, run.request[1].Framework)
           /\ run.stderr # ErrNoTemplate

\* C40: enter in stage Language changes no field of the result but Language, enter in
\* Framework none but Framework and leaves no library selected, enter in Libraries and
\* enter in Confirm change no field of the result, enter in Name changes none but Name
\* and Libraries; once the stage is Done no step changes the stage or the result.
C40_ConfirmWrites ==
    /\ [][EnterKey =>
             /\ m.stage = stageLanguage =>
                   m'.result = [m.result EXCEPT !.Language = m'.result.Language]
             /\ m.stage = stageFramework =>
                   /\ m'.result = [m.result EXCEPT !.Framework = m'.result.Framework]
                   /\ m'.selectedLibs = << >>
             /\ m.stage = stageLibraries => m'.result = m.result
             /\ m.stage = stageName =>
                   m'.result = [m.result EXCEPT !.Name = m'.result.Name,
                                                !.Libraries = m'.result.Libraries]
             /\ m.stage = stageConfirm => m'.result = m.result]_vars
    /\ [][m.stage = stageDone => m'.stage = stageDone /\ m'.result = m.result]_vars

\* Python confirmed in stage Language after Go and Cobra had been confirmed and a
\* library selected: the framework of the result is still Cobra and the selection is
\* still held
C40_Witness ==
    /\ m.stage = stageFramework
    /\ m.result.Language = Py
    /\ m.result.Framework = Cobra
    /\ SelectedNames(m) = {gin}
    /\ confirms = 1

====
